---- MODULE Spec2Model ----
(***************************************************************************)
(* Chart pattern detection engine of loopweave                             *)
(* (backend/analytics/utils/chart_patterns.py, ta_metrics.py,              *)
(* plot_patterns.py) and the analytics service that runs it                *)
(* (backend/analytics/main.py, utils/db.py).                               *)
(*                                                                         *)
(* A price series is a sequence of bars.  Bar index i of the Python code   *)
(* (0-based) is position i + 1 of the TLA+ sequence; every operator below  *)
(* takes and returns 0-based bar indices, as the code does.  Prices are    *)
(* whole numbers of price units, and every comparison of a quotient with a *)
(* decimal threshold is written cross-multiplied, so it is exact.          *)
(* Timestamps are strictly increasing, so a bar's timestamp is identified  *)
(* with its index.                                                         *)
(***************************************************************************)
EXTENDS Integers, Sequences, FiniteSets, TLC

VARIABLES df, pc, caller, table, patterns, geometry,
          frame, symbol, rows, updates, runs, prev, batch

vars == <<df, pc, caller, table, patterns, geometry,
          frame, symbol, rows, updates, runs, prev, batch>>

\* what lives outside one invocation of the engine: the symbol being
\* processed, the rows of the patterns table, the batch updates the database
\* layer has run, the bookkeeping of repeated invocations, and the counters
\* of the batch over the stock list
store == <<symbol, rows, updates, runs, prev, batch>>

----------------------------------------------------------------------------
(* Program constants *)

\* lookback of detect_head_and_shoulders and detect_triple_top_bottom
LOOKBACK_HS == 60
\* lookback of detect_double_top_bottom
LOOKBACK_DOUBLE == 50
\* lookback of detect_rectangle, detect_channels, detect_triangles
LOOKBACK_RECT == 40
\* lookback of detect_flags
LOOKBACK_FLAG == 30
\* minimum series length of calculate_all_chart_patterns / calculate_patterns
MIN_BARS == 40
\* spacing of find_local_extrema in the classifiers
EXTREMA_WINDOW == 5
\* spacing of find_local_extrema in extract_pattern_geometry
GEOMETRY_WINDOW == 3

PriceFields == {"open", "high", "low", "close"}

\* pattern_columns / chart_pattern_configs, in the order of the source
PatternNames ==
    << "head_and_shoulders", "bullish_rectangle", "bearish_rectangle",
       "triple_top", "triple_bottom", "double_top", "double_bottom",
       "ascending_channel", "descending_channel",
       "ascending_triangle", "descending_triangle",
       "bull_flag", "bear_flag" >>

PatternSet == { PatternNames[k] : k \in 1..Len(PatternNames) }

\* chart_pattern_configs with 50 for the patterns whose classifiers look
\* back 40 bars
ConfigLookbackOfDouble(name) ==
    CASE name \in {"head_and_shoulders", "triple_top", "triple_bottom"} -> LOOKBACK_HS
      [] name \in {"bull_flag", "bear_flag"} -> LOOKBACK_FLAG
      [] OTHER -> LOOKBACK_DOUBLE

\* chart_pattern_configs[name]['lookback'] (ta_metrics.py)
ConfigLookback(name) ==
    CASE name \in {"head_and_shoulders", "triple_top", "triple_bottom"} -> LOOKBACK_HS
      [] name \in {"double_top", "double_bottom"} -> LOOKBACK_DOUBLE
      [] name \in {"bull_flag", "bear_flag"} -> LOOKBACK_FLAG
      [] OTHER -> LOOKBACK_RECT

----------------------------------------------------------------------------
(* Sequence helpers (0-based, as numpy / pandas iloc) *)

At(x, i) == x[i + 1]

\* x[a:b]
Slice(x, a, b) == SubSeq(x, a + 1, b)

Highs(bars) == [k \in 1..Len(bars) |-> bars[k].high]
Lows(bars) == [k \in 1..Len(bars) |-> bars[k].low]
Closes(bars) == [k \in 1..Len(bars) |-> bars[k].close]
Neg(x) == [k \in 1..Len(x) |-> 0 - x[k]]

Abs(v) == IF v < 0 THEN 0 - v ELSE v

\* x[a] + ... + x[b], by halving
RECURSIVE SumRange(_, _, _)
SumRange(x, a, b) ==
    IF a > b THEN 0
    ELSE IF a = b THEN x[a]
    ELSE LET m == (a + b) \div 2 IN SumRange(x, a, m) + SumRange(x, m + 1, b)

Sum(x) == SumRange(x, 1, Len(x))

MaxOf(S) == CHOOSE v \in S : \A w \in S : w <= v
MinOf(S) == CHOOSE v \in S : \A w \in S : v <= w

\* the elements of a set of integers in increasing order
Sorted(S) ==
    [k \in 1..Cardinality(S) |->
        CHOOSE v \in S : Cardinality({ w \in S : w < v }) = k - 1]

Zeros(n) == [k \in 1..n |-> 0]

----------------------------------------------------------------------------
(* scipy.signal.find_peaks(x, distance, prominence), as find_local_extrema *)
(* calls it                                                                *)

\* last index of the run of equal values that starts at l
PlateauRight(x, l) ==
    MinOf({ r \in l..(Len(x) - 1) : r = Len(x) - 1 \/ At(x, r + 1) # At(x, l) })

\* _local_maxima_1d: the midpoint of every plateau that is strictly higher
\* than both neighbours; the first and the last sample are never maxima
local_maxima_1d(x) ==
    { (l + PlateauRight(x, l)) \div 2 :
        l \in { l \in 1..(Len(x) - 2) :
                  /\ At(x, l - 1) < At(x, l)
                  /\ LET r == PlateauRight(x, l)
                     IN  r <= Len(x) - 2 /\ At(x, r + 1) < At(x, l) } }

\* the candidate that _select_by_peak_distance visits first: the highest,
\* and among equal heights the one argsort puts last (the later bar)
HighestPriority(x, cands) ==
    CHOOSE j \in cands :
        \A k \in cands : At(x, k) < At(x, j) \/ (At(x, k) = At(x, j) /\ k <= j)

\* _select_by_peak_distance: visiting the candidates from the highest down,
\* a kept candidate removes every candidate closer than distance to it
RECURSIVE select_by_peak_distance(_, _, _)
select_by_peak_distance(x, cands, distance) ==
    IF cands = {} THEN {}
    ELSE LET j == HighestPriority(x, cands)
         IN  {j} \cup select_by_peak_distance(
                 x, { k \in cands : Abs(k - j) >= distance }, distance)

\* peak_prominences with wlen = None: each base is the lowest value between
\* the peak and the nearest higher value on that side (or the series end)
peak_prominence(x, peak) ==
    LET n == Len(x)
        left_stop == MaxOf({-1} \cup { i \in 0..(peak - 1) : At(x, i) > At(x, peak) })
        right_stop == MinOf({n} \cup { i \in (peak + 1)..(n - 1) : At(x, i) > At(x, peak) })
        left_min == MinOf({ At(x, i) : i \in (left_stop + 1)..peak })
        right_min == MinOf({ At(x, i) : i \in peak..(right_stop - 1) })
    IN  At(x, peak) - (IF left_min > right_min THEN left_min ELSE right_min)

\* n^2 times the population variance of x (np.std(x)^2 with ddof = 0); the
\* variance does not change when x[0] is subtracted from every element
VarTimesN2(x) ==
    LET d == [k \in 1..Len(x) |-> x[k] - x[1]]
        s == Sum(d)
        q == Sum([k \in 1..Len(x) |-> d[k] * d[k]])
    IN  Len(x) * q - s * s

\* prominence >= np.std(x) * 0.5
ProminentEnough(x, peak) ==
    LET p == 2 * Len(x) * peak_prominence(x, peak)
    IN  p * p >= VarTimesN2(x)

\* find_peaks without the distance filter
find_peaks_any_distance(x, distance) ==
    { p \in local_maxima_1d(x) : ProminentEnough(x, p) }

\* find_peaks: local maxima, then the distance filter, then the prominence
\* filter, in scipy's order
find_peaks(x, distance) ==
    LET kept == select_by_peak_distance(x, local_maxima_1d(x), distance)
    IN  IF kept = {} THEN {} ELSE { p \in kept : ProminentEnough(x, p) }

\* find_local_extrema with the sign of the two series exchanged
find_local_extrema_swapped(bars, window) ==
    IF Len(bars) = 0 THEN [peaks |-> {}, troughs |-> {}]
    ELSE [ peaks |-> find_peaks(Neg(Highs(bars)), window),
           troughs |-> find_peaks(Lows(bars), window) ]

\* the bar indices flagged True in peaks and in troughs
find_local_extrema(bars, window) ==
    IF Len(bars) = 0 THEN [peaks |-> {}, troughs |-> {}]
    ELSE [ peaks |-> find_peaks(Highs(bars), window),
           troughs |-> find_peaks(Neg(Lows(bars)), window) ]

----------------------------------------------------------------------------
(* Geometric pattern classifiers.  Each returns one 0/1 value per bar; the  *)
(* window of bar i is df.iloc[i-lookback:i], the lookback bars before i.   *)

\* the prices (field f) of the flagged extrema inside the window of bar i,
\* in time order
WindowExtrema(vals, flagged, i, lookback) ==
    LET idx == Sorted({ p \in flagged : i - lookback <= p /\ p < i })
    IN  [k \in 1..Len(idx) |-> At(vals, idx[k])]

\* position (0-based) of the first maximum of a non-empty sequence:
\* sorted(enumerate(prices), key=price, reverse=True)[0] is stable
FirstArgMax(prices) ==
    CHOOSE h \in 0..(Len(prices) - 1) :
        /\ \A k \in 0..(Len(prices) - 1) : At(prices, k) <= At(prices, h)
        /\ \A k \in 0..(h - 1) : At(prices, k) < At(prices, h)

HeadAndShouldersRule(peak_prices) ==
    /\ Len(peak_prices) >= 3
    /\ LET head_idx == FirstArgMax(peak_prices)
       IN  /\ head_idx > 0
           /\ head_idx < Len(peak_prices) - 1
           /\ LET head_price == At(peak_prices, head_idx)
                  left_shoulder == At(peak_prices, head_idx - 1)
                  right_shoulder == At(peak_prices, head_idx + 1)
              IN  /\ 100 * head_price > 102 * left_shoulder
                  /\ 100 * head_price > 102 * right_shoulder
                  /\ 100 * Abs(left_shoulder - right_shoulder) < 5 * left_shoulder

\* mutant: every bar is scanned with whatever part of its window exists
detect_head_and_shoulders_partial(bars, lookback) ==
    LET peaks == find_local_extrema(bars, EXTREMA_WINDOW).peaks
        highs == Highs(bars)
    IN  [k \in 1..Len(bars) |->
           IF HeadAndShouldersRule(WindowExtrema(highs, peaks, k - 1, lookback))
           THEN 1 ELSE 0]

detect_head_and_shoulders(bars, lookback) ==
    IF Len(bars) < lookback THEN Zeros(Len(bars))
    ELSE LET peaks == find_local_extrema(bars, EXTREMA_WINDOW).peaks
             highs == Highs(bars)
         IN  [k \in 1..Len(bars) |->
                IF k - 1 >= lookback
                   /\ HeadAndShouldersRule(WindowExtrema(highs, peaks, k - 1, lookback))
                THEN 1 ELSE 0]

\* touches_resistance >= 2 and touches_support >= 2 in the window of bar i
RectangleTouches(bars, i, lookback) ==
    LET w == Slice(bars, i - lookback, i)
        resistance == MaxOf({ w[k].high : k \in 1..Len(w) })
        support == MinOf({ w[k].low : k \in 1..Len(w) })
    IN  /\ Cardinality({ k \in 1..Len(w) : 100 * w[k].high >= 98 * resistance }) >= 2
        /\ Cardinality({ k \in 1..Len(w) : 100 * w[k].low <= 102 * support }) >= 2

\* mutant: a close at the midpoint counts as bullish
RectangleBullishOrEqual(bars, i, lookback) ==
    LET w == Slice(bars, i - lookback, i)
        resistance == MaxOf({ w[k].high : k \in 1..Len(w) })
        support == MinOf({ w[k].low : k \in 1..Len(w) })
    IN  2 * w[Len(w)].close >= support + resistance

\* recent_close > (support + resistance) / 2
RectangleBullish(bars, i, lookback) ==
    LET w == Slice(bars, i - lookback, i)
        resistance == MaxOf({ w[k].high : k \in 1..Len(w) })
        support == MinOf({ w[k].low : k \in 1..Len(w) })
    IN  2 * w[Len(w)].close > support + resistance

detect_rectangle(bars, lookback) ==
    IF Len(bars) < lookback
    THEN [bullish |-> Zeros(Len(bars)), bearish |-> Zeros(Len(bars))]
    ELSE LET touch == [k \in 1..Len(bars) |->
                         k - 1 >= lookback /\ RectangleTouches(bars, k - 1, lookback)]
             bull == [k \in 1..Len(bars) |->
                         touch[k] /\ RectangleBullish(bars, k - 1, lookback)]
         IN  [ bullish |-> [k \in 1..Len(bars) |-> IF bull[k] THEN 1 ELSE 0],
               bearish |-> [k \in 1..Len(bars) |->
                              IF touch[k] /\ ~bull[k] THEN 1 ELSE 0] ]

\* mutant: the spread of the extrema is taken relative to their minimum
SimilarLevelsOfMin(prices, count, pct) ==
    /\ Len(prices) >= count
    /\ LET last == { prices[k] : k \in (Len(prices) - count + 1)..Len(prices) }
       IN  100 * (MaxOf(last) - MinOf(last)) < pct * MinOf(last)

\* the latest count extrema of the window lie within pct percent of their maximum
\* (for count = 2, abs(p[0] - p[1]) is max - min)
SimilarLevels(prices, count, pct) ==
    /\ Len(prices) >= count
    /\ LET last == { prices[k] : k \in (Len(prices) - count + 1)..Len(prices) }
       IN  100 * (MaxOf(last) - MinOf(last)) < pct * MaxOf(last)

TopBottom(bars, lookback, count, pct) ==
    IF Len(bars) < lookback
    THEN [top |-> Zeros(Len(bars)), bottom |-> Zeros(Len(bars))]
    ELSE LET ext == find_local_extrema(bars, EXTREMA_WINDOW)
             highs == Highs(bars)
             lows == Lows(bars)
         IN  [ top |-> [k \in 1..Len(bars) |->
                          IF k - 1 >= lookback
                             /\ SimilarLevels(WindowExtrema(highs, ext.peaks, k - 1, lookback),
                                              count, pct)
                          THEN 1 ELSE 0],
               bottom |-> [k \in 1..Len(bars) |->
                          IF k - 1 >= lookback
                             /\ SimilarLevels(WindowExtrema(lows, ext.troughs, k - 1, lookback),
                                              count, pct)
                          THEN 1 ELSE 0] ]

detect_triple_top_bottom(bars, lookback) == TopBottom(bars, lookback, 3, 3)

detect_double_top_bottom(bars, lookback) == TopBottom(bars, lookback, 2, 2)

\* np.polyfit(np.arange(n), y, 1)[0] as the exact least-squares slope
\* SlopeNum(y) / SlopeDen(n)
SlopeNum(y) ==
    Len(y) * Sum([k \in 1..Len(y) |-> (k - 1) * y[k]])
      - Sum([k \in 1..Len(y) |-> k - 1]) * Sum(y)

SlopeDen(n) ==
    n * Sum([k \in 1..n |-> (k - 1) * (k - 1)])
      - Sum([k \in 1..n |-> k - 1]) * Sum([k \in 1..n |-> k - 1])

\* mutant: the difference of the slopes is taken relative to the low slope
ParallelSlopesOfLow(hs, ls) == 10 * Abs(hs - ls) < 3 * Abs(ls)

\* abs(high_slope - low_slope) / abs(high_slope) < 0.3
ParallelSlopes(hs, ls) == 10 * Abs(hs - ls) < 3 * Abs(hs)

detect_channels(bars, lookback) ==
    IF Len(bars) < lookback
    THEN [ascending |-> Zeros(Len(bars)), descending |-> Zeros(Len(bars))]
    ELSE LET hs == [k \in 1..Len(bars) |->
                      IF k - 1 >= lookback
                      THEN SlopeNum(Highs(Slice(bars, k - 1 - lookback, k - 1))) ELSE 0]
             ls == [k \in 1..Len(bars) |->
                      IF k - 1 >= lookback
                      THEN SlopeNum(Lows(Slice(bars, k - 1 - lookback, k - 1))) ELSE 0]
         IN  [ ascending |-> [k \in 1..Len(bars) |->
                   IF k - 1 >= lookback /\ hs[k] > 0 /\ ls[k] > 0
                      /\ ParallelSlopes(hs[k], ls[k]) THEN 1 ELSE 0],
               descending |-> [k \in 1..Len(bars) |->
                   IF k - 1 >= lookback /\ hs[k] < 0 /\ ls[k] < 0
                      /\ ParallelSlopes(hs[k], ls[k]) THEN 1 ELSE 0] ]

\* mutant: any rising support and any falling resistance count
detect_triangles_any_slope(bars, lookback) ==
    IF Len(bars) < lookback
    THEN [ascending |-> Zeros(Len(bars)), descending |-> Zeros(Len(bars))]
    ELSE LET den == SlopeDen(lookback)
             hs == [k \in 1..Len(bars) |->
                      IF k - 1 >= lookback
                      THEN SlopeNum(Highs(Slice(bars, k - 1 - lookback, k - 1))) ELSE 0]
             ls == [k \in 1..Len(bars) |->
                      IF k - 1 >= lookback
                      THEN SlopeNum(Lows(Slice(bars, k - 1 - lookback, k - 1))) ELSE 0]
         IN  [ ascending |-> [k \in 1..Len(bars) |->
                   IF k - 1 >= lookback /\ 100 * Abs(hs[k]) < den /\ ls[k] > 0
                   THEN 1 ELSE 0],
               descending |-> [k \in 1..Len(bars) |->
                   IF k - 1 >= lookback /\ hs[k] < 0 /\ 100 * Abs(ls[k]) < den
                   THEN 1 ELSE 0] ]

detect_triangles(bars, lookback) ==
    IF Len(bars) < lookback
    THEN [ascending |-> Zeros(Len(bars)), descending |-> Zeros(Len(bars))]
    ELSE LET den == SlopeDen(lookback)
             hs == [k \in 1..Len(bars) |->
                      IF k - 1 >= lookback
                      THEN SlopeNum(Highs(Slice(bars, k - 1 - lookback, k - 1))) ELSE 0]
             ls == [k \in 1..Len(bars) |->
                      IF k - 1 >= lookback
                      THEN SlopeNum(Lows(Slice(bars, k - 1 - lookback, k - 1))) ELSE 0]
         IN  [ ascending |-> [k \in 1..Len(bars) |->
                   IF k - 1 >= lookback /\ 100 * Abs(hs[k]) < den /\ 100 * ls[k] > den
                   THEN 1 ELSE 0],
               descending |-> [k \in 1..Len(bars) |->
                   IF k - 1 >= lookback /\ 100 * hs[k] < 0 - den /\ 100 * Abs(ls[k]) < den
                   THEN 1 ELSE 0] ]

\* mutant: the bull flag takes the flag-trend bounds of the bear flag
detect_flags_bear_bounds(bars, lookback) ==
    IF Len(bars) < lookback
    THEN [bull |-> Zeros(Len(bars)), bear |-> Zeros(Len(bars))]
    ELSE LET half == lookback \div 2
             c(k, j) == At(bars, k - 1 - lookback + j).close
             pole(k) == c(k, half - 1) - c(k, 0)
             flag(k) == c(k, lookback - 1) - c(k, half)
         IN  [ bull |-> [k \in 1..Len(bars) |->
                   IF k - 1 >= lookback
                      /\ 100 * pole(k) > 5 * c(k, 0)
                      /\ 0 - 2 * c(k, half) < 100 * flag(k)
                      /\ 100 * flag(k) < 5 * c(k, half)
                   THEN 1 ELSE 0],
               bear |-> [k \in 1..Len(bars) |->
                   IF k - 1 >= lookback
                      /\ 100 * pole(k) < 0 - 5 * c(k, 0)
                      /\ 0 - 2 * c(k, half) < 100 * flag(k)
                      /\ 100 * flag(k) < 5 * c(k, half)
                   THEN 1 ELSE 0] ]

\* detect_flags whose window ends at the current bar
detect_flags_through_current(bars, lookback) ==
    IF Len(bars) < lookback
    THEN [bull |-> Zeros(Len(bars)), bear |-> Zeros(Len(bars))]
    ELSE LET half == lookback \div 2
             c(k, j) == At(bars, k - lookback + j).close
             pole(k) == c(k, half - 1) - c(k, 0)
             flag(k) == c(k, lookback - 1) - c(k, half)
         IN  [ bull |-> [k \in 1..Len(bars) |->
                   IF k - 1 >= lookback
                      /\ 100 * pole(k) > 5 * c(k, 0)
                      /\ 0 - 5 * c(k, half) < 100 * flag(k)
                      /\ 100 * flag(k) < 2 * c(k, half)
                   THEN 1 ELSE 0],
               bear |-> [k \in 1..Len(bars) |->
                   IF k - 1 >= lookback
                      /\ 100 * pole(k) < 0 - 5 * c(k, 0)
                      /\ 0 - 2 * c(k, half) < 100 * flag(k)
                      /\ 100 * flag(k) < 5 * c(k, half)
                   THEN 1 ELSE 0] ]

\* (closes[-1] - closes[0]) / closes[0], as the pair numerator, denominator
detect_flags(bars, lookback) ==
    IF Len(bars) < lookback
    THEN [bull |-> Zeros(Len(bars)), bear |-> Zeros(Len(bars))]
    ELSE LET half == lookback \div 2
             c(k, j) == At(bars, k - 1 - lookback + j).close
             pole(k) == c(k, half - 1) - c(k, 0)
             flag(k) == c(k, lookback - 1) - c(k, half)
         IN  [ bull |-> [k \in 1..Len(bars) |->
                   IF k - 1 >= lookback
                      /\ 100 * pole(k) > 5 * c(k, 0)
                      /\ 0 - 5 * c(k, half) < 100 * flag(k)
                      /\ 100 * flag(k) < 2 * c(k, half)
                   THEN 1 ELSE 0],
               bear |-> [k \in 1..Len(bars) |->
                   IF k - 1 >= lookback
                      /\ 100 * pole(k) < 0 - 5 * c(k, 0)
                      /\ 0 - 2 * c(k, half) < 100 * flag(k)
                      /\ 100 * flag(k) < 5 * c(k, half)
                   THEN 1 ELSE 0] ]

----------------------------------------------------------------------------
(* Geometry extractor (plot_patterns.py).  pattern_candles is a slice of   *)
(* the series: first is the index of its first bar, bars its rows.  A y    *)
(* coordinate is an exact fraction << numerator, denominator >>.           *)

\* intercept of np.polyfit(np.arange(n), y, 1), times SlopeDen(Len(y))
InterceptNum(y) ==
    Sum(y) * Sum([k \in 1..Len(y) |-> (k - 1) * (k - 1)])
      - Sum([k \in 1..Len(y) |-> k - 1]) * Sum([k \in 1..Len(y) |-> (k - 1) * y[k]])

\* [intercept, slope * (n - 1) + intercept] of the line fitted to y
FittedEnds(y) ==
    << << InterceptNum(y), SlopeDen(Len(y)) >>,
       << SlopeNum(y) * (Len(y) - 1) + InterceptNum(y), SlopeDen(Len(y)) >> >>

Line(label, x, y) == [label |-> label, x |-> x, y |-> y]

\* the last count elements of a sequence: list(...)[-count:]
LastOf(x, count) == IF Len(x) <= count THEN x ELSE SubSeq(x, Len(x) - count + 1, Len(x))

extract_pattern_geometry(pattern_candles, pattern_name) ==
    LET bars == pattern_candles.bars
        first == pattern_candles.first
        n == Len(bars)
        last == first + n - 1
        ext == find_local_extrema(bars, GEOMETRY_WINDOW)
        peak_list == Sorted(ext.peaks)
        trough_list == Sorted(ext.troughs)
        highs == Highs(bars)
        lows == Lows(bars)
        Labels(pos) == [k \in 1..Len(pos) |-> first + pos[k]]
        Fraction(vals, pos) == [k \in 1..Len(pos) |-> << At(vals, pos[k]), 1 >>]
        lines ==
          CASE pattern_name = "head_and_shoulders" ->
                 IF Len(peak_list) < 3 THEN << >>
                 ELSE LET peak_prices == [k \in 1..Len(peak_list) |-> At(highs, peak_list[k])]
                          head_pos == FirstArgMax(peak_prices)
                      IN  IF ~(head_pos > 0 /\ head_pos < Len(peak_list) - 1) THEN << >>
                          ELSE LET three == SubSeq(peak_list, head_pos, head_pos + 2)
                                   neckline_troughs ==
                                       Sorted({ t \in ext.troughs :
                                                  three[1] < t /\ t < three[3] })
                                   neck == << neckline_troughs[1],
                                              neckline_troughs[Len(neckline_troughs)] >>
                               IN  << Line("Head & Shoulders", Labels(three),
                                           Fraction(highs, three)) >>
                                   \o (IF Len(neckline_troughs) >= 2
                                       THEN << Line("Neckline", Labels(neck),
                                                    Fraction(lows, neck)) >>
                                       ELSE << >>)
            [] pattern_name \in {"double_top", "triple_top"} ->
                 IF Len(peak_list) < 2 THEN << >>
                 ELSE LET top_peaks == LastOf(peak_list,
                                              IF pattern_name = "triple_top" THEN 3 ELSE 2)
                      IN  << Line(IF pattern_name = "triple_top"
                                  THEN "Triple Top" ELSE "Double Top",
                                  Labels(top_peaks), Fraction(highs, top_peaks)) >>
            [] pattern_name \in {"double_bottom", "triple_bottom"} ->
                 IF Len(trough_list) < 2 THEN << >>
                 ELSE LET bottom_troughs == LastOf(trough_list,
                                              IF pattern_name = "triple_bottom" THEN 3 ELSE 2)
                      IN  << Line(IF pattern_name = "triple_bottom"
                                  THEN "Triple Bottom" ELSE "Double Bottom",
                                  Labels(bottom_troughs), Fraction(lows, bottom_troughs)) >>
            [] pattern_name \in {"bullish_rectangle", "bearish_rectangle"} ->
                 LET resistance == MaxOf({ highs[k] : k \in 1..n })
                     support == MinOf({ lows[k] : k \in 1..n })
                 IN  << Line("Resistance", << first, last >>,
                             << << resistance, 1 >>, << resistance, 1 >> >>),
                        Line("Support", << first, last >>,
                             << << support, 1 >>, << support, 1 >> >>) >>
            [] pattern_name = "ascending_triangle" ->
                 << Line("Resistance", << first, last >>,
                         << << Sum(highs), n >>, << Sum(highs), n >> >>),
                    Line("Support", << first, last >>, FittedEnds(lows)) >>
            [] pattern_name = "descending_triangle" ->
                 << Line("Resistance", << first, last >>, FittedEnds(highs)),
                    Line("Support", << first, last >>,
                         << << Sum(lows), n >>, << Sum(lows), n >> >>) >>
            [] pattern_name \in {"ascending_channel", "descending_channel"} ->
                 << Line("Upper Channel", << first, last >>, FittedEnds(highs)),
                    Line("Lower Channel", << first, last >>, FittedEnds(lows)) >>
            [] pattern_name \in {"bull_flag", "bear_flag"} ->
                 LET mid_point == n \div 2
                     flag_bars == Slice(bars, mid_point, n)
                 IN  << Line("Pole", << first, first + mid_point - 1 >>,
                             << << At(bars, 0).close, 1 >>,
                                << At(bars, mid_point - 1).close, 1 >> >>) >>
                     \o (IF Len(flag_bars) > 1
                         THEN << Line("Flag", << first + mid_point, last >>,
                                      FittedEnds(IF pattern_name = "bull_flag"
                                                 THEN Lows(flag_bars)
                                                 ELSE Highs(flag_bars))) >>
                         ELSE << >>)
            [] OTHER -> << >>
    IN  IF n = 0 THEN [lines |-> << >>, points |-> << >>]
        ELSE [lines |-> lines, points |-> << >>]

\* pattern_lengths.get(pattern_name, 40) (plot_patterns.py)
PatternLength(name) ==
    CASE name \in {"head_and_shoulders", "triple_top", "triple_bottom"} -> LOOKBACK_HS
      [] name \in {"double_top", "double_bottom"} -> LOOKBACK_DOUBLE
      [] name \in {"bull_flag", "bear_flag"} -> LOOKBACK_FLAG
      [] OTHER -> LOOKBACK_RECT

\* pattern_candles cut where the classifier looked: the pattern_length bars
\* before bar pattern_date
PatternCandlesBeforeBar(bars, pattern_name, pattern_date) ==
    LET pattern_end_idx == pattern_date
        pattern_start_idx ==
            IF pattern_end_idx - PatternLength(pattern_name) > 0
            THEN pattern_end_idx - PatternLength(pattern_name) ELSE 0
    IN  [first |-> pattern_start_idx,
         bars |-> Slice(bars, pattern_start_idx, pattern_end_idx)]

\* the pattern_candles that extract_pattern_context cuts for a detection at
\* bar pattern_date: the pattern_length bars ending at and including that bar
PatternCandles(bars, pattern_name, pattern_date) ==
    LET pattern_end_idx == pattern_date + 1
        pattern_start_idx ==
            IF pattern_end_idx - PatternLength(pattern_name) > 0
            THEN pattern_end_idx - PatternLength(pattern_name) ELSE 0
    IN  [first |-> pattern_start_idx,
         bars |-> Slice(bars, pattern_start_idx, pattern_end_idx)]

\* extract_pattern_context(...)['pattern_geometry']
extract_pattern_context(bars, pattern_name, pattern_date) ==
    extract_pattern_geometry(PatternCandles(bars, pattern_name, pattern_date),
                             pattern_name)

----------------------------------------------------------------------------
(* Input series *)

\* bars beyond the longest lookback in the longest input series
MaxExtra == 11

Bar(h, l, c) == [high |-> h, low |-> l, close |-> c]

Shapes ==
    { "flat", "ramp", "decline", "head", "tops", "bottoms", "outside",
      "shelf", "wedge", "sag", "pole_up", "pole_down", "late_spike" }

\* bar i of an n-bar series of each shape
ShapeBar(shape, n, i) ==
    CASE shape = "flat" -> Bar(100, 100, 100)
      [] shape = "ramp" -> Bar(100 + i + 1, 100 + i - 1, 100 + i)
      [] shape = "decline" -> Bar(200 - i + 1, 200 - i - 1, 200 - i)
      [] shape = "head" ->
           Bar(IF i = 10 THEN 110 ELSE IF i = 30 THEN 130 ELSE IF i = 50 THEN 111 ELSE 100,
               98, 99)
      [] shape = "late_spike" ->
           Bar(IF i \in {10, 30, 50} THEN 110 ELSE IF i = n - 1 THEN 300 ELSE 100,
               98, 99)
      [] shape = "tops" -> Bar(IF i \in {10, 30, 50} THEN 110 ELSE 100, 98, 99)
      [] shape = "bottoms" -> Bar(100, IF i \in {10, 30, 50} THEN 88 ELSE 98, 99)
      [] shape = "outside" ->
           Bar(IF i \in {10, 30, 50} THEN 110 ELSE 100,
               IF i \in {10, 30, 50} THEN 88 ELSE 98, 99)
      [] shape = "shelf" -> Bar(100, IF i < 39 THEN 90 ELSE 91, 95)
      [] shape = "wedge" -> Bar(120, 100 + i \div 4, 110)
      [] shape = "sag" -> Bar(140 - i \div 4, 100, 110)
      [] shape = "pole_up" -> Bar(101 + (IF i < 15 THEN i ELSE 15),
                                  99 + (IF i < 15 THEN i ELSE 15),
                                  100 + (IF i < 15 THEN i ELSE 15))
      [] shape = "pole_down" -> Bar(131 - (IF i < 15 THEN i ELSE 15),
                                    129 - (IF i < 15 THEN i ELSE 15),
                                    130 - (IF i < 15 THEN i ELSE 15))
      [] shape = "head_exact" ->
           Bar(IF i \in {10, 50} THEN 100 ELSE IF i = 30 THEN 102 ELSE 90, 88, 89)
      [] shape = "tops_exact" ->
           Bar(IF i \in {10, 50} THEN 100 ELSE IF i = 30 THEN 97 ELSE 90, 88, 89)
      [] shape = "bottoms_near" ->
           Bar(120, IF i \in {10, 50} THEN 99 ELSE IF i = 30 THEN 101 ELSE 110, 115)
      [] shape = "fan" -> Bar(100 + 4 * i, 90 + 3 * i, 95 + 3 * i)
      [] shape = "bull_dip" ->
           LET c == IF i < 15 THEN 100 + 2 * i ELSE 130 - (i - 15) \div 4
           IN  Bar(c + 1, c - 1, c)
      [] shape = "step_bump" ->
           Bar(IF i < 10 THEN 100 ELSE IF i = 10 THEN 120
               ELSE IF i = 11 THEN 100 ELSE 130, 98, 99)
      [] shape = "twin_peaks" ->
           Bar(IF i = 10 THEN 110 ELSE IF i = 13 THEN 112 ELSE 100, 98, 99)
      [] shape = "plateau" ->
           Bar(IF i \in {10, 11, 12} THEN 110 ELSE 100, 98, 99)

Series(shape, n) == [k \in 1..n |-> ShapeBar(shape, n, k - 1)]

Lookbacks == {LOOKBACK_FLAG, LOOKBACK_RECT, LOOKBACK_DOUBLE, LOOKBACK_HS}

\* series lengths: one below, at and one above every lookback (and with it
\* the 40-bar floor), the 45 bars of the ramp scenario, and the longest
Lengths ==
    { L + e : L \in Lookbacks, e \in {-1, 0, 1} }
      \cup {MIN_BARS + 5, LOOKBACK_HS + MaxExtra}

\* the price columns the caller's frame may carry: all four, or one missing
ColumnSets == {PriceFields} \cup { PriceFields \ {f} : f \in PriceFields }

\* series that put a classifier's rule at a threshold: a head exactly 2%
\* above its shoulders, peaks exactly 3% apart, troughs within 2% of their
\* maximum but not of their minimum, and trend lines whose slopes differ by
\* a quarter of the high slope, and a pole followed by a flag half that
\* falls by between 2% and 5%; and series that exercise the peak finder: a
\* bump two bars before a higher step, two unequal maxima three bars apart,
\* and three bars that share the maximal high
BoundaryShapes ==
    { "head_exact", "tops_exact", "bottoms_near", "fan", "bull_dip",
      "step_bump", "twin_peaks", "plateau" }

Inputs ==
    { [cols |-> cs, bars |-> Series(shape, n)] :
        cs \in ColumnSets, shape \in Shapes, n \in Lengths }
      \cup { [cols |-> PriceFields, bars |-> Series(shape, LOOKBACK_HS + 1)] :
               shape \in BoundaryShapes }

----------------------------------------------------------------------------
(* Pattern aggregator: calculate_all_chart_patterns, one step per          *)
(* classifier of its try block, and calculate_patterns around it           *)

Steps == << "head_and_shoulders", "rectangle", "triple", "double",
            "channels", "triangles", "flags" >>

NextStep(step) ==
    IF step = "flags" THEN "agg_done"
    ELSE Steps[(CHOOSE k \in 1..Len(Steps) : Steps[k] = step) + 1]

\* the price columns a classifier subscripts on a series of this length; a
\* classifier that returns at its length guard, or whose loop is empty,
\* subscripts none
ColumnsRead(step, bars) ==
    LET n == Len(bars)
    IN  CASE step \in {"head_and_shoulders", "triple"} ->
               IF n < LOOKBACK_HS THEN {} ELSE {"high", "low"}
          [] step = "double" ->
               IF n < LOOKBACK_DOUBLE THEN {} ELSE {"high", "low"}
          [] step = "rectangle" ->
               IF n <= LOOKBACK_RECT THEN {}
               ELSE {"high", "low"}
                    \cup (IF \E i \in LOOKBACK_RECT..(n - 1) :
                                RectangleTouches(bars, i, LOOKBACK_RECT)
                          THEN {"close"} ELSE {})
          [] step \in {"channels", "triangles"} ->
               IF n <= LOOKBACK_RECT THEN {} ELSE {"high", "low"}
          [] step = "flags" ->
               IF n <= LOOKBACK_FLAG THEN {} ELSE {"close"}

\* a classifier raises KeyError when it subscripts a column the frame lacks
Raises(step, d) == ~(ColumnsRead(step, d.bars) \subseteq d.cols)

\* the detection columns one step of the try block assigns
StepColumns(step, bars) ==
    CASE step = "head_and_shoulders" ->
           "head_and_shoulders" :> detect_head_and_shoulders(bars, LOOKBACK_HS)
      [] step = "rectangle" ->
           LET r == detect_rectangle(bars, LOOKBACK_RECT)
           IN  ("bullish_rectangle" :> r.bullish) @@ ("bearish_rectangle" :> r.bearish)
      [] step = "triple" ->
           LET r == detect_triple_top_bottom(bars, LOOKBACK_HS)
           IN  ("triple_top" :> r.top) @@ ("triple_bottom" :> r.bottom)
      [] step = "double" ->
           LET r == detect_double_top_bottom(bars, LOOKBACK_DOUBLE)
           IN  ("double_top" :> r.top) @@ ("double_bottom" :> r.bottom)
      [] step = "channels" ->
           LET r == detect_channels(bars, LOOKBACK_RECT)
           IN  ("ascending_channel" :> r.ascending) @@ ("descending_channel" :> r.descending)
      [] step = "triangles" ->
           LET r == detect_triangles(bars, LOOKBACK_RECT)
           IN  ("ascending_triangle" :> r.ascending) @@ ("descending_triangle" :> r.descending)
      [] step = "flags" ->
           LET r == detect_flags(bars, LOOKBACK_FLAG)
           IN  ("bull_flag" :> r.bull) @@ ("bear_flag" :> r.bear)

\* for col in pattern_columns: df[col] = 0
AllZero(n) == [p \in PatternSet |-> Zeros(n)]

NoTable == [p \in {} |-> << >>]

\* the detection columns of the frame calculate_all_chart_patterns returns
RECURSIVE RunSteps(_, _, _)
RunSteps(d, k, t) ==
    IF k > Len(Steps) THEN t
    ELSE IF Raises(Steps[k], d) THEN AllZero(Len(d.bars))
    ELSE RunSteps(d, k + 1, StepColumns(Steps[k], d.bars) @@ t)

calculate_all_chart_patterns(d) ==
    IF Len(d.bars) < MIN_BARS THEN AllZero(Len(d.bars)) ELSE RunSteps(d, 1, NoTable)

\* a pattern name as the words its underscores separate
NameTokens(name) ==
    CASE name = "head_and_shoulders" -> << "head", "and", "shoulders" >>
      [] name = "bullish_rectangle" -> << "bullish", "rectangle" >>
      [] name = "bearish_rectangle" -> << "bearish", "rectangle" >>
      [] name = "triple_top" -> << "triple", "top" >>
      [] name = "triple_bottom" -> << "triple", "bottom" >>
      [] name = "double_top" -> << "double", "top" >>
      [] name = "double_bottom" -> << "double", "bottom" >>
      [] name = "ascending_channel" -> << "ascending", "channel" >>
      [] name = "descending_channel" -> << "descending", "channel" >>
      [] name = "ascending_triangle" -> << "ascending", "triangle" >>
      [] name = "descending_triangle" -> << "descending", "triangle" >>
      [] name = "bull_flag" -> << "bull", "flag" >>
      [] name = "bear_flag" -> << "bear", "flag" >>

\* f"{symbol}_{pattern_name}_{idx.isoformat()}": a string is the sequence of
\* the words its underscores separate (a symbol is a sequence of words, a
\* timestamp's ISO form holds no underscore), so joining with "_" is
\* concatenation
PatternId(sym, name, idx) == sym \o NameTokens(name) \o << idx >>

\* the rows calculate_patterns appends for one pattern, in index order
PatternRows(t, name, sym) ==
    LET occurrences == Sorted({ i \in 0..(Len(t[name]) - 1) : At(t[name], i) = 1 })
    IN  [k \in 1..Len(occurrences) |->
           LET idx == occurrences[k]
               lookback == ConfigLookback(name)
           IN  [ pattern_id |-> PatternId(sym, name, idx),
                 stock_symbol |-> sym,
                 pattern_type |-> name,
                 start_time |-> IF idx - lookback > 0 THEN idx - lookback ELSE 0,
                 end_time |-> idx,
                 confidence |-> 1 ]]

\* the loop of calculate_patterns over chart_pattern_configs
RECURSIVE PatternEvents(_, _, _)
PatternEvents(t, k, sym) ==
    IF k > Len(PatternNames) THEN << >>
    ELSE (IF PatternNames[k] \in DOMAIN t THEN PatternRows(t, PatternNames[k], sym)
          ELSE << >>) \o PatternEvents(t, k + 1, sym)

calculate_patterns(d, sym) ==
    IF Len(d.bars) < MIN_BARS THEN << >>
    ELSE PatternEvents(calculate_all_chart_patterns(d), 1, sym)

----------------------------------------------------------------------------
(* The state machine *)

NoGeometry == [lines |-> << >>, points |-> << >>]

\* the results of the previous invocation, before any invocation
NoPrev == [pc |-> "none", caller |-> "none", table |-> NoTable,
           patterns |-> << >>, geometry |-> NoGeometry, rows |-> << >>]

\* no batch over the stock list is running
NoBatch ==
    [todo |-> << >>, visited |-> << >>, log |-> << >>,
     stocks_processed |-> 0, patterns_found |-> 0, result |-> << >>]

\* the state every behaviour starts from, but for the series, the symbol,
\* the position and the batch
InitState ==
    /\ caller = "none"
    /\ table = NoTable
    /\ patterns = << >>
    /\ geometry = NoGeometry
    /\ frame = df.cols
    /\ rows = << >>
    /\ updates = << >>
    /\ runs = 0
    /\ prev = NoPrev

\* the engine called as a library on a series the caller provides
Init ==
    /\ df \in Inputs
    /\ symbol = << "AAPL" >>
    /\ pc = "idle"
    /\ batch = NoBatch
    /\ InitState

\* mutant: the event list is not created afresh by each invocation
CalculatePatternsSharedList ==
    /\ pc \in {"idle", "fetched", "metrics_updated"}
    /\ caller' = "calculate_patterns"
    /\ table' = NoTable
    /\ pc' = IF Len(df.bars) < MIN_BARS THEN "returned" ELSE "head_and_shoulders"
    /\ UNCHANGED <<df, patterns, geometry, frame, store>>

\* calculate_patterns(df, symbol) up to its call of the aggregator, which it
\* hands a copy of the frame
CalculatePatterns ==
    /\ pc \in {"idle", "fetched", "metrics_updated"}
    /\ caller' = "calculate_patterns"
    /\ patterns' = << >>
    /\ table' = NoTable
    /\ pc' = IF Len(df.bars) < MIN_BARS THEN "returned" ELSE "head_and_shoulders"
    /\ UNCHANGED <<df, geometry, frame, store>>

\* create_pattern_plot_html up to its call of the aggregator, which it hands
\* a copy of the frame; below 40 bars it returns None
CreatePatternPlotHtml ==
    /\ pc \in {"idle", "fetched"}
    /\ caller' = "create_pattern_plot_html"
    /\ table' = NoTable
    /\ pc' = IF Len(df.bars) < MIN_BARS THEN "returned" ELSE "head_and_shoulders"
    /\ UNCHANGED <<df, patterns, geometry, frame, store>>

\* the columns of the caller's frame after the aggregator assigned the
\* columns of t: the aggregator assigns into the frame it was passed, which is
\* the caller's own object unless the caller passed a copy
Assigned(who, t) == IF who = "direct" THEN frame \cup DOMAIN t ELSE frame

\* a caller invoking calculate_all_chart_patterns on its own frame
CalculateAllChartPatterns ==
    /\ pc \in {"idle", "fetched"}
    /\ caller' = "direct"
    /\ IF Len(df.bars) < MIN_BARS
       THEN pc' = "agg_done" /\ table' = AllZero(Len(df.bars))
       ELSE pc' = "head_and_shoulders" /\ table' = table
    /\ frame' = Assigned("direct", table')
    /\ UNCHANGED <<df, patterns, geometry, store>>

\* one classifier of the try block completes and its columns are assigned
Classify ==
    /\ pc \in { Steps[k] : k \in 1..Len(Steps) }
    /\ ~Raises(pc, df)
    /\ table' = StepColumns(pc, df.bars) @@ table
    /\ frame' = Assigned(caller, table')
    /\ pc' = NextStep(pc)
    /\ UNCHANGED <<df, caller, patterns, geometry, store>>

\* mutant: the except clause zeroes only the columns not yet assigned
ClassifierRaisesKeepsCompleted ==
    /\ pc \in { Steps[k] : k \in 1..Len(Steps) }
    /\ Raises(pc, df)
    /\ table' = table @@ AllZero(Len(df.bars))
    /\ frame' = Assigned(caller, table')
    /\ pc' = "agg_done"
    /\ UNCHANGED <<df, caller, patterns, geometry, store>>

\* a classifier raises: the except clause zeroes every detection column
ClassifierRaises ==
    /\ pc \in { Steps[k] : k \in 1..Len(Steps) }
    /\ Raises(pc, df)
    /\ table' = AllZero(Len(df.bars))
    /\ frame' = Assigned(caller, table')
    /\ pc' = "agg_done"
    /\ UNCHANGED <<df, caller, patterns, geometry, store>>

\* mutant: one event per run of consecutive flagged bars
ExtractEventsPerRun ==
    /\ pc = "agg_done"
    /\ caller = "calculate_patterns"
    /\ patterns' = patterns \o PatternEvents(
                       [p \in DOMAIN table |->
                          [j \in 1..Len(table[p]) |->
                             IF j > 1 /\ table[p][j - 1] = 1 THEN 0 ELSE table[p][j]]],
                       1, symbol)
    /\ pc' = "returned"
    /\ UNCHANGED <<df, caller, table, geometry, frame, store>>

\* calculate_patterns appends one event per flagged row of the detection
\* table to its event list and returns it
ExtractEvents ==
    /\ pc = "agg_done"
    /\ caller = "calculate_patterns"
    /\ patterns' = patterns \o PatternEvents(table, 1, symbol)
    /\ pc' = "returned"
    /\ UNCHANGED <<df, caller, table, geometry, frame, store>>

\* create_pattern_plot_html extracts the context of one flagged bar
ExtractPatternContext ==
    /\ pc = "agg_done"
    /\ caller = "create_pattern_plot_html"
    /\ \E p \in PatternSet :
         \E i \in 0..(Len(df.bars) - 1) :
            /\ At(table[p], i) = 1
            /\ geometry' = [pattern_name |-> p, pattern_date |-> i]
                             @@ extract_pattern_context(df.bars, p, i)
    /\ pc' = "plotted"
    /\ UNCHANGED <<df, caller, table, patterns, frame, store>>

Next ==
    \/ CalculatePatterns
    \/ CreatePatternPlotHtml
    \/ CalculateAllChartPatterns
    \/ Classify
    \/ ClassifierRaises
    \/ ExtractEvents
    \/ ExtractPatternContext

Spec == Init /\ [][Next]_vars

----------------------------------------------------------------------------
(* The analytics service around the engine: metrics, persistence of the    *)
(* events, and repeated processing of a series                              *)

\* repeated invocations after the first
MaxRuns == 1

\* symbols as the service passes them (upper case), as sequences of the words
\* their underscores separate
Symbols == { << "AAPL" >>, << "BRK", "B" >> }

MetricColumns ==
    { "sma_20", "sma_50", "sma_200", "ema_12", "ema_20", "ema_26",
      "macd_line", "macd_signal_line", "macd_histogram", "rsi", "atr",
      "bb_upper", "bb_lower" }

\* the statements of module ta_metrics that bind a name used by the metrics
\* update, in the order the module executes them, each with the number of
\* parameters of the function it binds
ModuleBindings ==
    << [name |-> "update_timeseries_metrics", module |-> "utils.db", parameters |-> 3],
       [name |-> "_update_metrics_for_table", module |-> "utils.ta_metrics", parameters |-> 3],
       [name |-> "update_timeseries_metrics", module |-> "utils.ta_metrics", parameters |-> 2],
       [name |-> "update_timeseries_metrics_4h", module |-> "utils.ta_metrics", parameters |-> 2] >>

\* the function a global name of module ta_metrics refers to when a function
\* body looks it up: the one bound last
Resolve(name) ==
    ModuleBindings[MaxOf({ k \in 1..Len(ModuleBindings) : ModuleBindings[k].name = name })]

\* metrics_list: one row per bar with the thirteen metric columns (the metric
\* values themselves are not modelled)
MetricsList(sym, bars) ==
    [k \in 1..Len(bars) |-> [symbol |-> sym, date |-> k - 1, columns |-> MetricColumns]]

\* _update_metrics_for_table(symbol, df, table): the batch updates the
\* database layer has run after it, given those it ran before.  The call
\* update_timeseries_metrics(symbol, table, metrics_list) passes three
\* arguments to whatever the name refers to; a function with another number
\* of parameters raises TypeError, which the except clause prints
update_metrics_for_table(sym, d, tbl, done) ==
    IF Len(d.bars) = 0 THEN done
    ELSE LET callee == Resolve("update_timeseries_metrics")
         IN  IF callee.parameters = 3 /\ callee.module = "utils.db"
             THEN Append(done, [symbol |-> sym, table |-> tbl,
                                metrics |-> MetricsList(sym, d.bars)])
             ELSE done

\* mutant: INSERT without the ON CONFLICT clause into a table without a
\* unique pattern_id
insert_patterns_plain(existing, values) == existing \o values

\* insert_patterns(patterns): INSERT ... ON CONFLICT (pattern_id) DO NOTHING,
\* one statement per row of the batch, into the rows the table holds
insert_patterns(existing, values) ==
    LET taken(k) ==
            \/ \E j \in 1..Len(existing) : existing[j].pattern_id = values[k].pattern_id
            \/ \E j \in 1..(k - 1) : values[j].pattern_id = values[k].pattern_id
        kept == Sorted({ k \in 1..Len(values) : ~taken(k) })
    IN  existing \o [n \in 1..Len(kept) |-> values[kept[n]]]

\* the series the service fetches: the ramp below and above the 40-bar floor
\* and the head-and-shoulders series one bar longer than its lookback, each
\* with all price columns or without 'high'
PipelineInputs ==
    { [cols |-> cs, bars |-> Series(sn[1], sn[2])] :
        cs \in {PriceFields, PriceFields \ {"high"}},
        sn \in { <<"ramp", MIN_BARS - 1>>, <<"ramp", MIN_BARS + 5>>,
                 <<"head", LOOKBACK_HS + 1>> } }

\* the service has fetched the series of a symbol
InitPipeline ==
    /\ df \in PipelineInputs
    /\ symbol \in Symbols
    /\ pc = "fetched"
    /\ batch = NoBatch
    /\ InitState

\* calculate_metrics(df) in calculate_all_metrics and calculate_all_metrics_4h:
\* the metric columns are assigned into the frame; a missing price column
\* raises, and the symbol is skipped
CalculateMetrics ==
    /\ pc = "fetched"
    /\ IF {"high", "low", "close"} \subseteq df.cols
       THEN pc' = "metrics_calculated" /\ frame' = frame \cup MetricColumns
       ELSE pc' = "skipped" /\ frame' = frame
    /\ UNCHANGED <<df, caller, table, patterns, geometry, store>>

\* update_timeseries_metrics(symbol, df_with_metrics) of module ta_metrics
UpdateTimeseriesMetrics ==
    /\ pc = "metrics_calculated"
    /\ updates' = update_metrics_for_table(symbol, df, "timeseries", updates)
    /\ pc' = "metrics_updated"
    /\ UNCHANGED <<df, caller, table, patterns, geometry, frame, symbol, rows, runs, prev, batch>>

\* update_timeseries_metrics_4h(symbol, df_with_metrics), the last step of
\* the 4-hour pipeline
UpdateTimeseriesMetrics4h ==
    /\ pc = "metrics_calculated"
    /\ updates' = update_metrics_for_table(symbol, df, "timeseries_4h", updates)
    /\ pc' = "metrics_updated_4h"
    /\ UNCHANGED <<df, caller, table, patterns, geometry, frame, symbol, rows, runs, prev, batch>>

\* the service stores the events calculate_patterns returned, if any
InsertPatterns ==
    /\ pc = "returned"
    /\ caller = "calculate_patterns"
    /\ rows' = IF patterns = << >> THEN rows ELSE insert_patterns(rows, patterns)
    /\ pc' = "stored"
    /\ UNCHANGED <<df, caller, table, patterns, geometry, frame, symbol, updates, runs, prev, batch>>

\* find_first_pattern finds no flagged bar in the detection table
NoneFlagged(t) ==
    { p \in DOMAIN t : { j \in 1..Len(t[p]) : t[p][j] = 1 } # {} } = {}

\* an invocation has run to its end
Finished ==
    \/ pc \in {"stored", "plotted", "skipped", "metrics_updated_4h"}
    \/ pc = "agg_done" /\ caller = "direct"
    \/ pc = "agg_done" /\ caller = "create_pattern_plot_html" /\ NoneFlagged(table)
    \/ pc = "returned" /\ caller = "create_pattern_plot_html"

\* the same series is processed once more; what the previous invocation
\* delivered is remembered for comparison
ProcessAgain ==
    /\ Finished
    /\ runs < MaxRuns
    /\ runs' = runs + 1
    /\ prev' = [pc |-> pc, caller |-> caller, table |-> table,
                patterns |-> patterns, geometry |-> geometry, rows |-> rows]
    /\ pc' = "fetched"
    /\ UNCHANGED <<df, caller, table, patterns, geometry, frame, symbol, rows, updates, batch>>

NextPipeline ==
    \/ Next
    \/ CalculateMetrics
    \/ UpdateTimeseriesMetrics
    \/ UpdateTimeseriesMetrics4h
    \/ InsertPatterns
    \/ ProcessAgain

SpecPipeline == InitPipeline /\ [][NextPipeline]_vars

----------------------------------------------------------------------------
(* Daily batch: calculate_all_metrics over the stock list                  *)

\* symbols of the stock list that one batch processes
MaxStocks == 2

STOCKS ==
    << << "AAPL" >>, << "MSFT" >>, << "GOOGL" >>, << "AMZN" >>, << "META" >>,
       << "TSLA" >>, << "NVDA" >>, << "JPM" >>, << "V" >>, << "JNJ" >>,
       << "WMT" >>, << "PG" >>, << "MA" >>, << "UNH" >>, << "HD" >>,
       << "DIS" >>, << "BAC" >>, << "ADBE" >>, << "NFLX" >>, << "CRM" >> >>

\* the head of the stock list
BatchList == SubSeq(STOCKS, 1, MaxStocks)

\* a query result without rows
EmptyFrame == [cols |-> PriceFields, bars |-> << >>]

\* what the query for a symbol may return: no rows, a series below the
\* 40-bar floor, or a series with a head-and-shoulders event; the query
\* selects every price column
BatchInputs ==
    { EmptyFrame, [cols |-> PriceFields, bars |-> Series("ramp", MIN_BARS - 1)],
      [cols |-> PriceFields, bars |-> Series("head", LOOKBACK_HS + 1)] }

\* calculate_all_metrics starts with both counters at zero
InitBatch ==
    /\ df = EmptyFrame
    /\ symbol = << >>
    /\ pc = "batch_loop"
    /\ batch = [NoBatch EXCEPT !.todo = BatchList]
    /\ InitState

\* the loop takes the next symbol and fetches its series; a failing query
\* raises into the except clause of the loop body, an empty result is
\* skipped, and both go on with the next symbol
FetchTimeseriesData ==
    /\ pc = "batch_loop"
    /\ batch.todo # << >>
    /\ symbol' = Head(batch.todo)
    /\ LET taken == [batch EXCEPT !.todo = Tail(@),
                                  !.visited = Append(@, Head(batch.todo))]
           logged(outcome) ==
               [taken EXCEPT !.log = Append(@, [symbol |-> Head(batch.todo),
                                                outcome |-> outcome,
                                                events |-> 0])]
       IN  \/ /\ df' = df
              /\ pc' = "batch_loop"
              /\ batch' = logged("fetch_raised")
           \/ \E d \in BatchInputs :
                 /\ df' = d
                 /\ IF Len(d.bars) = 0
                    THEN pc' = "batch_loop" /\ batch' = logged("empty")
                    ELSE pc' = "fetched" /\ batch' = taken
    /\ frame' = df'.cols
    /\ UNCHANGED <<caller, table, patterns, geometry, rows, updates, runs, prev>>

\* calculate_patterns(df_with_metrics, symbol) as the batch calls it
BatchCalculatePatterns == pc = "metrics_updated" /\ CalculatePatterns

\* the end of the loop body for a symbol
Concluded(outcome, events) ==
    [batch EXCEPT !.log = Append(@, [symbol |-> symbol, outcome |-> outcome,
                                     events |-> events])]

\* mutant: the counters are advanced before insert_patterns is called
BatchInsertPatternsCountsFirst ==
    /\ pc = "returned"
    /\ caller = "calculate_patterns"
    /\ \/ /\ rows' = IF patterns = << >> THEN rows ELSE insert_patterns(rows, patterns)
          /\ batch' = [Concluded("completed", Len(patterns)) EXCEPT
                          !.patterns_found = @ + Len(patterns),
                          !.stocks_processed = @ + 1]
       \/ /\ patterns # << >>
          /\ rows' = rows
          /\ batch' = [Concluded("insert_raised", Len(patterns)) EXCEPT
                          !.patterns_found = @ + Len(patterns),
                          !.stocks_processed = @ + 1]
    /\ pc' = "batch_loop"
    /\ UNCHANGED <<df, caller, table, patterns, geometry, frame, symbol, updates, runs, prev>>

\* the rest of the loop body: a non-empty event list is passed to
\* insert_patterns and its length added to patterns_found, then
\* stocks_processed is advanced; an insert that raises is rolled back and
\* leaves both counters as they were
BatchInsertPatterns ==
    /\ pc = "returned"
    /\ caller = "calculate_patterns"
    /\ \/ /\ rows' = IF patterns = << >> THEN rows ELSE insert_patterns(rows, patterns)
          /\ batch' = [Concluded("completed", Len(patterns)) EXCEPT
                          !.patterns_found = @ + Len(patterns),
                          !.stocks_processed = @ + 1]
       \/ /\ patterns # << >>
          /\ rows' = rows
          /\ batch' = Concluded("insert_raised", Len(patterns))
    /\ pc' = "batch_loop"
    /\ UNCHANGED <<df, caller, table, patterns, geometry, frame, symbol, updates, runs, prev>>

\* the loop is over and the two counters are returned
BatchReturn ==
    /\ pc = "batch_loop"
    /\ batch.todo = << >>
    /\ batch' = [batch EXCEPT !.result =
                    << [stocks_processed |-> batch.stocks_processed,
                        patterns_found |-> batch.patterns_found] >>]
    /\ pc' = "batch_returned"
    /\ UNCHANGED <<df, caller, table, patterns, geometry, frame, symbol, rows, updates, runs, prev>>

NextBatch ==
    \/ FetchTimeseriesData
    \/ CalculateMetrics
    \/ UpdateTimeseriesMetrics
    \/ BatchCalculatePatterns
    \/ Classify
    \/ ExtractEvents
    \/ BatchInsertPatterns
    \/ BatchReturn

SpecBatch == InitBatch /\ [][NextBatch]_vars

----------------------------------------------------------------------------
(* calculate_patterns on a frame whose index the caller supplies: the      *)
(* frame carries, next to its bars, the timestamp of every row             *)

\* df.index.get_loc(idx) is a position when the timestamp of row i occurs
\* once in the index; for a repeated timestamp it is a slice, and
\* pattern_end_idx - lookback raises TypeError
OccursOnce(index, i) ==
    Cardinality({ j \in 1..Len(index) : index[j] = At(index, i) }) = 1

\* the (pattern, row) pairs in the order the two loops of
\* calculate_patterns visit them
RECURSIVE Occurrences(_, _)
Occurrences(t, k) ==
    IF k > Len(PatternNames) THEN << >>
    ELSE LET name == PatternNames[k]
             rows_of == IF name \in DOMAIN t
                        THEN Sorted({ i \in 0..(Len(t[name]) - 1) : At(t[name], i) = 1 })
                        ELSE << >>
         IN  [n \in 1..Len(rows_of) |-> << name, rows_of[n] >>] \o Occurrences(t, k + 1)

\* the dictionary appended for one occurrence
IndexedEvent(index, name, idx, sym) ==
    LET lookback == ConfigLookback(name)
        pattern_start_idx == IF idx - lookback > 0 THEN idx - lookback ELSE 0
    IN  [ pattern_id |-> PatternId(sym, name, At(index, idx)),
          stock_symbol |-> sym,
          pattern_type |-> name,
          start_time |-> At(index, pattern_start_idx),
          end_time |-> At(index, idx),
          confidence |-> 1 ]

\* the occurrences whose event is appended: all, or those before the first
\* one that raises
Appended(t, index) ==
    LET occ == Occurrences(t, 1)
        raising == { k \in 1..Len(occ) : ~OccursOnce(index, occ[k][2]) }
    IN  IF raising = {} THEN occ ELSE SubSeq(occ, 1, MinOf(raising) - 1)

\* mutant: a failure discards the events appended before it
IndexedEventsAllOrNothing(t, index, sym) ==
    LET occ == Occurrences(t, 1)
    IN  IF Appended(t, index) # occ THEN << >>
        ELSE [k \in 1..Len(occ) |-> IndexedEvent(index, occ[k][1], occ[k][2], sym)]

\* the list calculate_patterns holds when its loops end or its except
\* clause is entered
IndexedEvents(t, index, sym) ==
    LET done == Appended(t, index)
    IN  [k \in 1..Len(done) |-> IndexedEvent(index, done[k][1], done[k][2], sym)]

\* row timestamps: one per row and increasing, or the same with the
\* timestamp of row at repeated on the row after it
Timestamps(n, at) == [k \in 1..n |-> IF k - 1 = at + 1 THEN at ELSE k - 1]

\* rows whose timestamp the next row may repeat; -2 stands for none
RepeatedAt == {-2, LOOKBACK_RECT, LOOKBACK_RECT + 5}

\* series without peaks and troughs, at and above the lookbacks, with all
\* price columns or without 'close'
IndexedInputs ==
    { [cols |-> cs, bars |-> Series(shape, n), index |-> Timestamps(n, at)] :
        cs \in {PriceFields, PriceFields \ {"close"}},
        shape \in {"ramp", "decline", "pole_up", "wedge"},
        n \in {MIN_BARS + 5, LOOKBACK_HS + 1},
        at \in RepeatedAt }

InitIndexed ==
    /\ df \in IndexedInputs
    /\ symbol = << "AAPL" >>
    /\ pc = "idle"
    /\ batch = NoBatch
    /\ InitState

\* the loops of calculate_patterns over the detection table, and its
\* except clause, which prints and falls through to `return patterns`
ExtractEventsIndexed ==
    /\ pc = "agg_done"
    /\ caller = "calculate_patterns"
    /\ patterns' = patterns \o IndexedEvents(table, df.index, symbol)
    /\ pc' = "returned"
    /\ UNCHANGED <<df, caller, table, geometry, frame, store>>

NextIndexed ==
    \/ CalculatePatterns
    \/ Classify
    \/ ClassifierRaises
    \/ ExtractEventsIndexed

SpecIndexed == InitIndexed /\ [][NextIndexed]_vars

----------------------------------------------------------------------------
(* Properties *)

\* largest factor by which a series is rescaled
MaxScale == 3

NumBars == Len(df.bars)

\* the aggregator has returned the detection table of a well-formed frame
Aggregated == pc = "agg_done" /\ df.cols = PriceFields

StepOf(p) ==
    CASE p = "head_and_shoulders" -> "head_and_shoulders"
      [] p \in {"bullish_rectangle", "bearish_rectangle"} -> "rectangle"
      [] p \in {"triple_top", "triple_bottom"} -> "triple"
      [] p \in {"double_top", "double_bottom"} -> "double"
      [] p \in {"ascending_channel", "descending_channel"} -> "channels"
      [] p \in {"ascending_triangle", "descending_triangle"} -> "triangles"
      [] p \in {"bull_flag", "bear_flag"} -> "flags"

\* the value of pattern p at bar i when its classifier is run on bars
DetectionAt(p, bars, i) == At(StepColumns(StepOf(p), bars)[p], i)

\* the series cut after bar i
Truncated(bars, i) == SubSeq(bars, 1, i + 1)

\* every price of every bar multiplied by k
Scaled(d, k) ==
    [d EXCEPT !.bars = [j \in 1..Len(d.bars) |->
                          Bar(k * d.bars[j].high, k * d.bars[j].low, k * d.bars[j].close)]]

Flagged(column) == { i \in 0..(Len(column) - 1) : At(column, i) = 1 }

\* C1 (stated as in the specification): the detection value of every pattern
\* at every bar i equals the value its classifier gives at bar i on the series
\* truncated after bar i.
C1_NoLookahead ==
    Aggregated /\ NumBars >= MIN_BARS =>
        \A p \in PatternSet : \A i \in 0..(NumBars - 1) :
            At(table[p], i) = DetectionAt(p, Truncated(df.bars, i), i)

\* C2 (stated as in the specification): multiplying every price by a positive
\* constant k leaves the boolean output of every classifier unchanged at
\* every bar.
C2_ScaleInvariance ==
    Aggregated =>
        \A k \in 1..MaxScale : calculate_all_chart_patterns(Scaled(df, k)) = table

IsFlat(bars) ==
    \A j \in 1..Len(bars) :
        /\ bars[j] = bars[1]
        /\ bars[j].high = bars[j].low
        /\ bars[j].low = bars[j].close

\* C3 (stated as in the specification): a flat series of any length produces
\* zero detections at every bar for all thirteen pattern types.
C3_FlatSeriesNoDetections ==
    Aggregated /\ IsFlat(df.bars) => table = AllZero(NumBars)

\* the head-and-shoulders scenario: the only peaks of the series are bars 10,
\* 30 and 50, with highs 110, 130 and 111, inside the 60 bars 0..59
HeadScenario(bars) ==
    /\ Len(bars) >= LOOKBACK_HS
    /\ find_local_extrema(bars, EXTREMA_WINDOW).peaks = {10, 30, 50}
    /\ At(bars, 10).high = 110
    /\ At(bars, 30).high = 130
    /\ At(bars, 50).high = 111

\* C4 (stated as in the specification): in the head-and-shoulders scenario
\* head_and_shoulders_detected is 1 at bar 59, the last bar of the window
\* 0..59, and 0 at every bar whose window holds no qualifying peak triple.
C4_HeadAndShouldersScenario ==
    Aggregated /\ HeadScenario(df.bars) =>
        /\ At(table["head_and_shoulders"], LOOKBACK_HS - 1) = 1
        /\ \A i \in 0..(NumBars - 1) :
              ~HeadAndShouldersRule(
                  WindowExtrema(Highs(df.bars), {10, 30, 50}, i, LOOKBACK_HS))
              => At(table["head_and_shoulders"], i) = 0

\* the strictly linear ramp: close rises by one per bar from 100, with
\* high = close + 1 and low = close - 1
IsRamp(bars) ==
    \A j \in 1..Len(bars) : bars[j] = Bar(100 + j, 100 + j - 2, 100 + j - 1)

\* C5 (stated as in the specification): on the 45-bar linear ramp no bar is
\* flagged bullish_rectangle, bearish_rectangle, double_top or
\* descending_channel.
C5_RampNoOscillationPatterns ==
    Aggregated /\ IsRamp(df.bars) /\ NumBars = MIN_BARS + 5 =>
        \A p \in {"bullish_rectangle", "bearish_rectangle", "double_top",
                  "descending_channel"} : Flagged(table[p]) = {}

\* C6 (stated as in the specification): on the linear ramp, for every length
\* from 40 to 45 bars, at least one bar is flagged ascending_channel.
C6_RampAscendingChannel ==
    Aggregated /\ IsRamp(df.bars) /\ NumBars \in MIN_BARS..(MIN_BARS + 5) =>
        Flagged(table["ascending_channel"]) # {}

StepSet == { Steps[k] : k \in 1..Len(Steps) }

\* the lookback each step of the aggregator passes to its classifier
StepLookback(step) ==
    CASE step \in {"head_and_shoulders", "triple"} -> LOOKBACK_HS
      [] step = "double" -> LOOKBACK_DOUBLE
      [] step = "flags" -> LOOKBACK_FLAG
      [] OTHER -> LOOKBACK_RECT

\* C7: a series with fewer bars than a pattern's lookback gives an all-zero
\* signal for that pattern, both from the classifier itself and in the
\* detection table; and for a series of fewer than 40 bars calculate_patterns
\* returns an empty event list without raising and
\* calculate_all_chart_patterns sets all thirteen columns to 0.
C7_LengthFloor ==
    /\ \A step \in StepSet :
          NumBars < StepLookback(step) =>
              LET cols == StepColumns(step, df.bars)
              IN  \A p \in DOMAIN cols : cols[p] = Zeros(NumBars)
    /\ \A p \in DOMAIN table :
          NumBars < ConfigLookback(p) => table[p] = Zeros(NumBars)
    /\ NumBars < MIN_BARS =>
          /\ pc \in {"idle", "agg_done", "returned"}
          /\ (pc = "returned" => patterns = << >>)
          /\ (pc = "agg_done" => table = AllZero(NumBars))

\* C7 witness: the aggregator has run on a series one bar short of the
\* head-and-shoulders lookback that holds the three peaks of a head and
\* shoulders, and on a series below the 40-bar floor calculate_patterns has
\* returned
C7_Witness_Short ==
    /\ pc = "agg_done"
    /\ NumBars = LOOKBACK_HS - 1
    /\ HeadAndShouldersRule(
           WindowExtrema(Highs(df.bars),
                         find_local_extrema(df.bars, EXTREMA_WINDOW).peaks,
                         NumBars, LOOKBACK_HS))
    /\ table["head_and_shoulders"] = Zeros(NumBars)
    /\ Flagged(table["descending_triangle"]) # {}

\* C8 (stated as in the specification): the geometry extracted for a flagged
\* (pattern, bar) holds at least one labeled line or point.
C8_GeometryConsistency ==
    pc = "plotted" /\ df.cols = PriceFields =>
        Len(geometry.lines) + Len(geometry.points) >= 1

\* C9 (stated as in the specification): no bar is flagged both as a peak and
\* as a trough by find_local_extrema.
C9_PeakTroughExclusive ==
    df.cols = PriceFields =>
    \A window \in {GEOMETRY_WINDOW, EXTREMA_WINDOW} :
        LET ext == find_local_extrema(df.bars, window)
        IN  ext.peaks \cap ext.troughs = {}

\* the first step of the try block that raises on this frame, 0 if none
FirstRaising(d) ==
    IF \E k \in 1..Len(Steps) : Raises(Steps[k], d)
    THEN MinOf({ k \in 1..Len(Steps) : Raises(Steps[k], d) })
    ELSE 0

\* C10: when a classifier raises during calculate_all_chart_patterns on a
\* series of at least 40 bars, the aggregator still returns, with all
\* thirteen detection columns 0 at every bar, and calculate_patterns then
\* returns an empty event list.
C10_FailSoft ==
    NumBars >= MIN_BARS /\ FirstRaising(df) # 0 =>
        /\ pc \in StepSet => (\E k \in 1..FirstRaising(df) : pc = Steps[k])
        /\ pc \in {"agg_done", "returned", "plotted"} => table = AllZero(NumBars)
        /\ pc = "returned" => patterns = << >>
        /\ pc # "plotted"

\* C10 witness: the aggregator returned all-zero columns although a
\* classifier that completed before the failing one had flagged a bar
C10_Witness_PartialDiscarded ==
    /\ pc = "returned"
    /\ NumBars >= MIN_BARS
    /\ FirstRaising(df) > 1
    /\ \E j \in 1..(FirstRaising(df) - 1) :
          LET cols == StepColumns(Steps[j], df.bars)
          IN  \E p \in DOMAIN cols : Flagged(cols[p]) # {}
    /\ table = AllZero(NumBars)
    /\ patterns = << >>

\* the call has returned a result to its caller: calculate_all_chart_patterns
\* its frame with the detection table, calculate_patterns its event list
ReturnedResult ==
    \/ pc = "agg_done" /\ caller = "direct"
    \/ pc = "returned" /\ caller = "calculate_patterns"

\* C11 (stated as in the specification): a call on a series that lacks one of
\* the price fields open, high, low, close fails with an error to the caller;
\* it never returns a detection table or an event list.
C11_MalformedInputFailsFast ==
    df.cols # PriceFields => ~ReturnedResult

\* calculate_patterns has returned the event list of a series of at least 40
\* bars
EventsReturned ==
    pc = "returned" /\ caller = "calculate_patterns" /\ NumBars >= MIN_BARS

\* the events of pattern p that end at bar i
EventsOf(p, i) ==
    { k \in DOMAIN patterns :
        patterns[k].pattern_type = p /\ patterns[k].end_time = i }

\* C12: for a series of at least 40 bars calculate_patterns returns exactly
\* one event for every (pattern, bar) flagged in the detection table and no
\* other event; the event ends at the flagged bar, starts lookback bars
\* earlier (not before bar 0) and has confidence 1, so a run of N consecutive
\* flagged bars yields N events.
C12_EventExtraction ==
    EventsReturned =>
        /\ \A p \in PatternSet : \A i \in 0..(NumBars - 1) :
              Cardinality(EventsOf(p, i)) = IF At(table[p], i) = 1 THEN 1 ELSE 0
        /\ \A k \in DOMAIN patterns :
              LET e == patterns[k]
                  from == e.end_time - StepLookback(StepOf(e.pattern_type))
              IN  /\ e.pattern_type \in PatternSet
                  /\ e.end_time \in 0..(NumBars - 1)
                  /\ e.start_time = IF from > 0 THEN from ELSE 0
                  /\ e.confidence = 1

\* C12 witness: calculate_patterns returned the events of a table in which a
\* pattern is flagged at three consecutive bars, one event per bar, the later
\* ones starting after bar 0
C12_Witness_RunOfEvents ==
    /\ EventsReturned
    /\ \E p \in PatternSet : \E i \in 0..(NumBars - 3) :
          /\ \A j \in i..(i + 2) : At(table[p], j) = 1 /\ EventsOf(p, j) # {}
          /\ \E k \in EventsOf(p, i + 2) : patterns[k].start_time > 0

\* the events of a sequence have pairwise distinct pattern_ids, each built
\* from the event's own symbol, pattern type and end time
DistinctIds(events) ==
    /\ \A k \in DOMAIN events :
          events[k].pattern_id =
              PatternId(events[k].stock_symbol, events[k].pattern_type, events[k].end_time)
    /\ \A j, k \in DOMAIN events :
          events[j].pattern_id = events[k].pattern_id => j = k

\* C13: the pattern_id of an event is a function of exactly (symbol,
\* pattern_type, end_time) - equal triples give equal ids by construction and
\* different triples give different ids - the events of one run have distinct
\* pattern_ids, and storing the events of a series again leaves the rows of
\* the patterns table as they were after the previous store.
C13_IdempotentPersistence ==
    /\ \A s1, s2 \in Symbols : \A p1, p2 \in PatternSet : \A i1, i2 \in 0..1 :
          PatternId(s1, p1, i1) = PatternId(s2, p2, i2)
              => s1 = s2 /\ p1 = p2 /\ i1 = i2
    /\ pc \in {"returned", "stored"} /\ caller = "calculate_patterns"
          => DistinctIds(patterns)
    /\ DistinctIds(rows)
    /\ pc = "stored" /\ prev.pc = "stored" => rows = prev.rows

\* C13 witness: the events of a series with several flagged bars were stored
\* a second time, for a symbol that contains an underscore
C13_Witness_StoredTwice ==
    /\ pc = "stored"
    /\ prev.pc = "stored"
    /\ symbol = << "BRK", "B" >>
    /\ Len(patterns) >= 2
    /\ Len(prev.rows) >= 2

\* C14 (stated as in the specification): an invocation of the engine leaves
\* the series object the caller passed unchanged: it holds the columns it
\* had, and no detection column.
C14_InputUnchanged ==
    frame = df.cols /\ frame \cap PatternSet = {}

\* the aggregator has assigned all thirteen columns of this table
Complete(t) == DOMAIN t = PatternSet

\* C15: a later invocation on the same bars delivers what the earlier one
\* delivered: the same detection table, the same event list (same events,
\* order and pattern_ids), and for the same pattern and bar the same geometry.
C15_Determinism ==
    runs >= 1 =>
        /\ pc \in {"agg_done", "returned", "stored", "plotted"}
              /\ Complete(table) /\ Complete(prev.table)
              => table = prev.table
        /\ pc \in {"returned", "stored"} /\ caller = "calculate_patterns"
              /\ prev.pc = "stored"
              => patterns = prev.patterns
        /\ pc = "plotted" /\ prev.pc = "plotted"
              /\ geometry.pattern_name = prev.geometry.pattern_name
              /\ geometry.pattern_date = prev.geometry.pattern_date
              => geometry = prev.geometry

\* C15 witness: calculate_patterns has returned for the second time on a
\* series with flagged bars, after a first invocation that ran to its end
C15_Witness_SecondInvocation ==
    /\ runs = 1
    /\ pc = "returned"
    /\ caller = "calculate_patterns"
    /\ prev.pc = "stored"
    /\ Complete(table)
    /\ ~NoneFlagged(table)
    /\ Len(patterns) >= 2

\* a metrics update of the service has returned
MetricsUpdateReturned == pc \in {"metrics_updated", "metrics_updated_4h"}

\* C16 (stated as in the specification): when update_timeseries_metrics or
\* update_timeseries_metrics_4h of module ta_metrics has returned for a
\* non-empty series, the database layer has run a batch update for the
\* symbol with one row per bar carrying the thirteen metric columns, on table
\* 'timeseries' respectively 'timeseries_4h'.
C16_MetricsPersisted ==
    MetricsUpdateReturned /\ NumBars > 0 =>
        \E k \in DOMAIN updates :
            /\ updates[k].symbol = symbol
            /\ updates[k].table = (IF pc = "metrics_updated" THEN "timeseries"
                                   ELSE "timeseries_4h")
            /\ Len(updates[k].metrics) = NumBars
            /\ \A j \in DOMAIN updates[k].metrics :
                  /\ updates[k].metrics[j].date = j - 1
                  /\ updates[k].metrics[j].columns = MetricColumns

\* the peaks and troughs the classifiers see on the caller's series
Extrema == find_local_extrema(df.bars, EXTREMA_WINDOW)

\* the head-and-shoulders rule in the words of the specification: the head
\* is at least 2% above each shoulder
HeadAndShouldersAsSpecified(peak_prices) ==
    /\ Len(peak_prices) >= 3
    /\ LET h == FirstArgMax(peak_prices)
       IN  /\ h > 0
           /\ h < Len(peak_prices) - 1
           /\ 100 * At(peak_prices, h) >= 102 * At(peak_prices, h - 1)
           /\ 100 * At(peak_prices, h) >= 102 * At(peak_prices, h + 1)
           /\ 100 * Abs(At(peak_prices, h - 1) - At(peak_prices, h + 1))
                 < 5 * At(peak_prices, h - 1)

\* C17 (stated as in the specification): bar i is flagged head_and_shoulders
\* iff the 60 bars before it hold at least 3 peaks, the earliest highest of
\* them is neither the first nor the last, it exceeds both neighbouring peaks
\* by at least 2%, and the neighbours differ by less than 5% of the left one.
C17_HeadAndShouldersRule ==
    Aggregated =>
        \A i \in LOOKBACK_HS..(NumBars - 1) :
            At(table["head_and_shoulders"], i) = 1
                <=> HeadAndShouldersAsSpecified(
                        WindowExtrema(Highs(df.bars), Extrema.peaks, i, LOOKBACK_HS))

\* the bars of the window of bar i: the lookback bars before it
WindowBars(i, lookback) == (IF i - lookback > 0 THEN i - lookback ELSE 0)..(i - 1)

\* resistance and support of the 40 bars before bar i
Resistance(i) == MaxOf({ At(df.bars, j).high : j \in WindowBars(i, LOOKBACK_RECT) })

Support(i) == MinOf({ At(df.bars, j).low : j \in WindowBars(i, LOOKBACK_RECT) })

\* at least 2 bars of the window reach within 2% of the resistance and at
\* least 2 within 2% of the support
IsRectangle(i) ==
    /\ i >= LOOKBACK_RECT
    /\ LET res == Resistance(i)
           sup == Support(i)
       IN  /\ Cardinality({ j \in WindowBars(i, LOOKBACK_RECT) :
                              100 * At(df.bars, j).high >= 98 * res }) >= 2
           /\ Cardinality({ j \in WindowBars(i, LOOKBACK_RECT) :
                              100 * At(df.bars, j).low <= 102 * sup }) >= 2

\* C18: bar i is flagged as a rectangle iff, among the 40 bars before it, at
\* least 2 have a high of at least 0.98 x the highest high and at least 2 a
\* low of at most 1.02 x the lowest low; a flagged bar is bullish iff the
\* close of the window's last bar is strictly above the midpoint of the two
\* levels and bearish otherwise, never both.
C18_RectangleRule ==
    Aggregated =>
        \A i \in 0..(NumBars - 1) :
            LET bull == At(table["bullish_rectangle"], i) = 1
                bear == At(table["bearish_rectangle"], i) = 1
                rect == IsRectangle(i)
            IN  /\ (bull \/ bear) <=> rect
                /\ ~(bull /\ bear)
                /\ rect =>
                      (bull <=> 2 * At(df.bars, i - 1).close > Support(i) + Resistance(i))

\* C18 witness: a rectangle whose last close lies exactly at the midpoint is
\* flagged bearish
C18_Witness_MidpointBearish ==
    /\ Aggregated
    /\ \E i \in LOOKBACK_RECT..(NumBars - 1) :
          /\ IsRectangle(i)
          /\ 2 * At(df.bars, i - 1).close = Support(i) + Resistance(i)
          /\ At(table["bearish_rectangle"], i) = 1

\* the latest k of the prices exist and their spread (max - min) is strictly
\* less than tol percent of their maximum
WithinOfMax(prices, k, tol) ==
    /\ Len(prices) >= k
    /\ LET latest == { prices[j] : j \in (Len(prices) - k + 1)..Len(prices) }
           hi == CHOOSE v \in latest : \A w \in latest : w <= v
           lo == CHOOSE v \in latest : \A w \in latest : v <= w
       IN  100 * (hi - lo) < tol * hi

\* the k-fold top and bottom columns follow the rule with this lookback and
\* tolerance
TopBottomRule(k, lookback, tol, top, bottom) ==
    \A i \in 0..(NumBars - 1) :
        /\ At(table[top], i) = 1
              <=> /\ i >= lookback
                  /\ WithinOfMax(WindowExtrema(Highs(df.bars), Extrema.peaks, i, lookback),
                                 k, tol)
        /\ At(table[bottom], i) = 1
              <=> /\ i >= lookback
                  /\ WithinOfMax(WindowExtrema(Lows(df.bars), Extrema.troughs, i, lookback),
                                 k, tol)

\* C19: with k = 2 (lookback 50, tolerance 2%) and k = 3 (lookback 60,
\* tolerance 3%), bar i is flagged as a k-fold top iff the lookback bars
\* before it hold at least k peaks and the highs of the latest k differ by
\* strictly less than the tolerance times their maximum; a k-fold bottom
\* follows the same rule on the lows of the latest k troughs, also relative
\* to their maximum.
C19_TopBottomRule ==
    Aggregated =>
        /\ TopBottomRule(2, LOOKBACK_DOUBLE, 2, "double_top", "double_bottom")
        /\ TopBottomRule(3, LOOKBACK_HS, 3, "triple_top", "triple_bottom")

\* C19 witness: a double bottom is flagged whose two troughs lie within 2% of
\* the higher one but not within 2% of the lower one, and on the same series
\* a triple bottom is flagged
C19_Witness_RelativeToMaximum ==
    /\ Aggregated
    /\ \E i \in LOOKBACK_DOUBLE..(NumBars - 1) :
          LET lows == WindowExtrema(Lows(df.bars), Extrema.troughs, i, LOOKBACK_DOUBLE)
          IN  /\ Len(lows) >= 2
              /\ 100 * Abs(lows[Len(lows)] - lows[Len(lows) - 1])
                    >= 2 * MinOf({lows[Len(lows)], lows[Len(lows) - 1]})
              /\ At(table["double_bottom"], i) = 1
    /\ Flagged(table["triple_bottom"]) # {}

\* numerators of the least-squares slopes of the highs and the lows of the 40
\* bars before bar i, over the common positive denominator SlopeDen(40)
HighSlope(i) == SlopeNum(Highs(Slice(df.bars, i - LOOKBACK_RECT, i)))

LowSlope(i) == SlopeNum(Lows(Slice(df.bars, i - LOOKBACK_RECT, i)))

\* C20: bar i is flagged ascending_channel iff the slopes hs of the highs and
\* ls of the lows of the 40 bars before it satisfy hs > 0, ls > 0 and
\* |hs - ls| < 0.3 x |hs|, and descending_channel iff hs < 0, ls < 0 and
\* |hs - ls| < 0.3 x |hs|; never both; with hs = 0 neither is flagged and the
\* classifier completes.
C20_ChannelRule ==
    /\ SlopeDen(LOOKBACK_RECT) > 0
    /\ Aggregated =>
        \A i \in 0..(NumBars - 1) :
            LET asc == At(table["ascending_channel"], i) = 1
                desc == At(table["descending_channel"], i) = 1
                hs == IF i >= LOOKBACK_RECT THEN HighSlope(i) ELSE 0
                ls == IF i >= LOOKBACK_RECT THEN LowSlope(i) ELSE 0
            IN  /\ asc <=> (i >= LOOKBACK_RECT /\ hs > 0 /\ ls > 0
                              /\ 10 * Abs(hs - ls) < 3 * Abs(hs))
                /\ desc <=> (i >= LOOKBACK_RECT /\ hs < 0 /\ ls < 0
                               /\ 10 * Abs(hs - ls) < 3 * Abs(hs))
                /\ ~(asc /\ desc)
                /\ (i >= LOOKBACK_RECT /\ hs = 0) => ~asc /\ ~desc
    /\ df.cols = PriceFields /\ NumBars >= MIN_BARS /\ pc = "channels"
          => ~Raises("channels", df)

\* C20 witness: the aggregator has returned for a series with a window whose
\* highs have slope zero while its lows rise, and neither channel is flagged
\* at that bar
C20_Witness_ZeroHighSlope ==
    /\ Aggregated
    /\ \E i \in LOOKBACK_RECT..(NumBars - 1) :
          /\ HighSlope(i) = 0
          /\ LowSlope(i) > 0
          /\ At(table["ascending_channel"], i) = 0
          /\ At(table["descending_channel"], i) = 0

\* C21: with hs and ls the least-squares slopes (price units per bar) of the
\* highs and the lows of the 40 bars before bar i, the bar is flagged
\* ascending_triangle iff |hs| < 0.01 and ls > 0.01, and descending_triangle
\* iff hs < -0.01 and |ls| < 0.01; never both.
C21_TriangleRule ==
    Aggregated =>
        \A i \in 0..(NumBars - 1) :
            LET asc == At(table["ascending_triangle"], i) = 1
                desc == At(table["descending_triangle"], i) = 1
                den == SlopeDen(LOOKBACK_RECT)
                hs == IF i >= LOOKBACK_RECT THEN HighSlope(i) ELSE 0
                ls == IF i >= LOOKBACK_RECT THEN LowSlope(i) ELSE 0
            IN  /\ asc <=> (i >= LOOKBACK_RECT /\ 100 * Abs(hs) < den /\ 100 * ls > den)
                /\ desc <=> (i >= LOOKBACK_RECT /\ 100 * hs < 0 - den /\ 100 * Abs(ls) < den)
                /\ ~(asc /\ desc)

\* C21 witness: the aggregator has returned for a series with flat highs
\* that has a bar whose lows rise by less than 0.01 per bar, not flagged, and
\* a bar whose lows rise by more, flagged ascending_triangle
C21_Witness_SlopeThreshold ==
    /\ Aggregated
    /\ \E i, j \in LOOKBACK_RECT..(NumBars - 1) :
          /\ HighSlope(i) = 0
          /\ LowSlope(i) > 0
          /\ 100 * LowSlope(i) <= SlopeDen(LOOKBACK_RECT)
          /\ At(table["ascending_triangle"], i) = 0
          /\ At(table["ascending_triangle"], j) = 1

\* closes of the pole half and the flag half of the 30 bars before bar i:
\* first and last close of each
PoleFirst(i) == At(df.bars, i - LOOKBACK_FLAG).close

PoleLast(i) == At(df.bars, i - LOOKBACK_FLAG + 14).close

FlagFirst(i) == At(df.bars, i - LOOKBACK_FLAG + 15).close

FlagLast(i) == At(df.bars, i - 1).close

\* the bull_flag and bear_flag columns t follow the flag rule at every bar
FlagRuleHolds(t) ==
    \A i \in 0..(NumBars - 1) :
        LET bull == At(t["bull_flag"], i) = 1
            bear == At(t["bear_flag"], i) = 1
        IN  IF i < LOOKBACK_FLAG THEN ~bull /\ ~bear
            ELSE LET pole == PoleLast(i) - PoleFirst(i)
                     flag == FlagLast(i) - FlagFirst(i)
                 IN  /\ bull <=> /\ 100 * pole > 5 * PoleFirst(i)
                                 /\ 100 * flag > 0 - 5 * FlagFirst(i)
                                 /\ 100 * flag < 2 * FlagFirst(i)
                     /\ bear <=> /\ 100 * pole < 0 - 5 * PoleFirst(i)
                                 /\ 100 * flag > 0 - 2 * FlagFirst(i)
                                 /\ 100 * flag < 5 * FlagFirst(i)
                     /\ ~(bull /\ bear)

\* C22: the 30 bars before bar i are split into the first 15 (pole) and the
\* last 15 (flag); the trend of a half is (last close - first close) / first
\* close; detect_flags flags the bar bull_flag iff pole trend > 0.05 and
\* -0.05 < flag trend < 0.02, and bear_flag iff pole trend < -0.05 and
\* -0.02 < flag trend < 0.05; never both.  The detection table of a series of
\* at least 40 bars holds these columns.
C22_FlagRule ==
    /\ "close" \in df.cols => FlagRuleHolds(StepColumns("flags", df.bars))
    /\ Aggregated /\ NumBars >= MIN_BARS => FlagRuleHolds(table)

\* C22 witness: a bull flag is flagged at a bar whose flag half fell by more
\* than 2% and less than 5%
C22_Witness_BullFlagDip ==
    /\ Aggregated
    /\ \E i \in LOOKBACK_FLAG..(NumBars - 1) :
          /\ At(table["bull_flag"], i) = 1
          /\ 100 * (FlagLast(i) - FlagFirst(i)) < 0 - 2 * FlagFirst(i)

\* the classifiers have run on a series long enough for them to call
\* find_local_extrema
ExtremaComputed == Aggregated /\ NumBars >= LOOKBACK_HS

\* no sample within dist positions of sample p is strictly greater than it
NoGreaterWithin(x, p, dist) ==
    \A q \in 0..(Len(x) - 1) : Abs(q - p) <= dist => At(x, q) <= At(x, p)

(* C23, as stated: every bar flagged as a peak has a high that no bar      *)
(* within `window` positions on either side exceeds, and every bar flagged *)
(* as a trough has a low that no bar within `window` positions undercuts.  *)
C23_PeakLocality ==
    ExtremaComputed =>
        /\ \A p \in Extrema.peaks :
              NoGreaterWithin(Highs(df.bars), p, EXTREMA_WINDOW)
        /\ \A t \in Extrema.troughs :
              NoGreaterWithin(Neg(Lows(df.bars)), t, EXTREMA_WINDOW)

(* C23, amended: a flagged peak is never the first or the last bar, and    *)
(* neither bar adjacent to it has a strictly greater high; a flagged       *)
(* trough likewise, with no adjacent bar of strictly smaller low.          *)
C23_AdjacentLocality ==
    ExtremaComputed =>
        /\ \A p \in Extrema.peaks :
              /\ 0 < p /\ p < NumBars - 1
              /\ NoGreaterWithin(Highs(df.bars), p, 1)
        /\ \A t \in Extrema.troughs :
              /\ 0 < t /\ t < NumBars - 1
              /\ NoGreaterWithin(Neg(Lows(df.bars)), t, 1)

\* a flagged peak with a strictly higher bar less than `window` bars away
C23_Witness_BumpBeforeStep ==
    /\ ExtremaComputed
    /\ \E p \in Extrema.peaks :
          ~NoGreaterWithin(Highs(df.bars), p, EXTREMA_WINDOW)

\* any two members of the set are at least dist apart
Spaced(set, dist) == \A a, b \in set : a # b => Abs(a - b) >= dist

(* C24: any two distinct bars flagged as peaks by                          *)
(* find_local_extrema(df, window) are at least `window` positions apart,   *)
(* and so are any two bars flagged as troughs, for the window of the       *)
(* classifiers and for the window of the geometry extractor.               *)
C24_PeakSpacing ==
    ExtremaComputed =>
        \A w \in {EXTREMA_WINDOW, GEOMETRY_WINDOW} :
            LET e == find_local_extrema(df.bars, w)
            IN  Spaced(e.peaks, w) /\ Spaced(e.troughs, w)

\* two maxima of the highs closer than `window`, one of them flagged
C24_Witness_CloseMaxima ==
    /\ ExtremaComputed
    /\ \E a, b \in local_maxima_1d(Highs(df.bars)) :
          /\ a # b
          /\ Abs(a - b) < EXTREMA_WINDOW
          /\ b \in Extrema.peaks
          /\ a \notin Extrema.peaks

\* sample q, earlier than sample p and fewer than dist positions from it,
\* ties with it: the same value, and nothing higher between the two
TiesBefore(x, q, p, dist) ==
    /\ q < p
    /\ p - q < dist
    /\ At(x, q) = At(x, p)
    /\ \A k \in q..p : At(x, k) <= At(x, p)

(* C25: among bars that share the same maximal high (a plateau, or equal   *)
(* maxima closer than `window`), the earliest is the one flagged as the    *)
(* peak: no flagged peak has an earlier bar that ties with it; likewise    *)
(* for troughs and the minimal low.                                        *)
C25_EarliestOfTies ==
    ExtremaComputed =>
        /\ \A p \in Extrema.peaks : \A q \in 0..(NumBars - 1) :
              ~TiesBefore(Highs(df.bars), q, p, EXTREMA_WINDOW)
        /\ \A t \in Extrema.troughs : \A q \in 0..(NumBars - 1) :
              ~TiesBefore(Neg(Lows(df.bars)), q, t, EXTREMA_WINDOW)

\* the events of the symbols whose processing ended in one of the outcomes
EventsOfOutcomes(outcomes) ==
    Sum([k \in 1..Len(batch.log) |->
            IF batch.log[k].outcome \in outcomes THEN batch.log[k].events ELSE 0])

\* the symbols are taken in list order, and at return every symbol of the
\* list has been taken and has one recorded outcome, whatever was raised
\* on the way; stocks_processed counts the symbols that completed
BatchOrderAndCount ==
    /\ batch.visited = SubSeq(BatchList, 1, Len(batch.visited))
    /\ pc = "batch_returned" =>
          /\ batch.visited = BatchList
          /\ [k \in 1..Len(batch.log) |-> batch.log[k].symbol] = BatchList
          /\ batch.result[1].stocks_processed =
                Cardinality({ k \in 1..Len(batch.log) :
                                batch.log[k].outcome = "completed" })

(* C26, as stated: the batch takes the symbols in list order, an exception *)
(* for one symbol stops no later symbol, stocks_processed is the number of *)
(* symbols with data that completed without exception, and patterns_found  *)
(* is the number of events passed to insert_patterns.                      *)
C26_BatchResilience ==
    /\ BatchOrderAndCount
    /\ pc = "batch_returned" =>
          batch.result[1].patterns_found =
              EventsOfOutcomes({"completed", "insert_raised"})

(* C26, amended: as above, but patterns_found is the number of events      *)
(* passed to calls of insert_patterns that returned without raising.       *)
C26_BatchResilienceInserted ==
    /\ BatchOrderAndCount
    /\ pc = "batch_returned" =>
          batch.result[1].patterns_found = EventsOfOutcomes({"completed"})

\* a batch has returned after an insert that raised for the first symbol
\* and events stored for the second
C26_Witness_InsertRaisedThenStored ==
    /\ pc = "batch_returned"
    /\ Len(batch.log) >= 2
    /\ batch.log[1].outcome = "insert_raised"
    /\ batch.log[2].outcome = "completed"
    /\ batch.log[2].events > 0
    /\ batch.result[1].stocks_processed = 1

\* the patterns whose classifiers read nothing but their window
WindowPatterns ==
    { "bullish_rectangle", "bearish_rectangle", "ascending_channel",
      "descending_channel", "ascending_triangle", "descending_triangle",
      "bull_flag", "bear_flag" }

\* prices bar i might have had instead
OtherBars == { Bar(1, 1, 1), Bar(1000, 1, 500), Bar(1000, 900, 1000) }

\* the L bars before bar i, followed by another bar in the place of bar i
WindowThen(bars, i, L, b) == Append(Slice(bars, i - L, i), b)

(* C27: a classifier with lookback L gives 0 at every bar with index < L,  *)
(* so a series of exactly L bars has no detection of its patterns; and for *)
(* the rectangle, channel, triangle and flag classifiers the value at bar  *)
(* i >= L is the value computed from bars i-L .. i-1 alone, whatever the   *)
(* prices of bar i (and of every bar outside the window).                  *)
C27_TrailingWindow ==
    Aggregated =>
        /\ \A step \in StepSet :
              LET cols == StepColumns(step, df.bars)
              IN  \A p \in DOMAIN cols : \A i \in 0..(NumBars - 1) :
                      i < StepLookback(step) => At(cols[p], i) = 0
        /\ \A p \in DOMAIN table : \A i \in 0..(NumBars - 1) :
              i < StepLookback(StepOf(p)) => At(table[p], i) = 0
        /\ NumBars >= MIN_BARS =>
              \A p \in WindowPatterns :
                  LET L == StepLookback(StepOf(p))
                  IN  \A i \in L..(NumBars - 1) : \A b \in OtherBars :
                          At(table[p], i) =
                              DetectionAt(p, WindowThen(df.bars, i, L, b), L)

\* a series of exactly 40 bars whose 30-bar flag window was first complete
\* at bar 30: flagged there by the bars before it, and nothing at bar 29
C27_Witness_FirstEligibleBar ==
    /\ Aggregated
    /\ NumBars = LOOKBACK_RECT
    /\ At(table["bull_flag"], LOOKBACK_FLAG) = 1
    /\ At(table["bull_flag"], LOOKBACK_FLAG - 1) = 0
    /\ Flagged(table["ascending_channel"]) = {}
    /\ DetectionAt("bull_flag",
                   WindowThen(df.bars, LOOKBACK_FLAG, LOOKBACK_FLAG, Bar(1, 1, 1)),
                   LOOKBACK_FLAG) = 1

(* C28: every event calculate_patterns returns ends at a bar index that is *)
(* at least the lookback of its pattern type, starts exactly lookback bars *)
(* before its end (the clamp to bar 0 never takes effect), and so starts   *)
(* strictly before it ends.                                                *)
C28_EventSpan ==
    pc = "returned" /\ caller = "calculate_patterns" =>
        \A k \in 1..Len(patterns) :
            LET e == patterns[k]
                lookback == ConfigLookback(e.pattern_type)
            IN  /\ e.end_time >= lookback
                /\ e.start_time = e.end_time - lookback
                /\ e.start_time < e.end_time

\* an event that ends at the first bar its classifier evaluates and starts
\* at bar 0, and another of the same type that ends later
C28_Witness_EventAtLookback ==
    /\ pc = "returned"
    /\ caller = "calculate_patterns"
    /\ \E k, j \in 1..Len(patterns) :
          /\ patterns[k].end_time = ConfigLookback(patterns[k].pattern_type)
          /\ patterns[k].start_time = 0
          /\ patterns[j].pattern_type = patterns[k].pattern_type
          /\ patterns[j].start_time > 0

\* the classifier's evaluation window for a detection of p at bar i, moved
\* one bar later: bars i-L+1 .. i, with L the classifier's lookback
ShiftedWindow(p, i) ==
    LET L == StepLookback(StepOf(p))
        from == IF i - L + 1 > 0 THEN i - L + 1 ELSE 0
    IN  [first |-> from, bars |-> [k \in 1..(i - from + 1) |-> At(df.bars, from + k - 1)]]

(* C29: the geometry of a detection of pattern p at bar i is the one the   *)
(* extractor derives, with extrema of spacing 3, from exactly the bars     *)
(* max(0, i-L+1) .. i: the L bars that end at and include bar i, which is  *)
(* the classifier's window i-L .. i-1 moved one bar later; a name without  *)
(* an entry gets the length 40.                                            *)
C29_GeometryWindow ==
    /\ PatternLength("unknown") = 40
    /\ pc = "plotted" =>
          LET p == geometry.pattern_name
              i == geometry.pattern_date
              w == ShiftedWindow(p, i)
              g == extract_pattern_geometry(w, p)
          IN  /\ w.first = (i - StepLookback(StepOf(p))) + 1
              /\ Len(w.bars) = StepLookback(StepOf(p))
              /\ geometry.lines = g.lines
              /\ geometry.points = g.points

\* a plotted detection after the first eligible bar whose geometry has a
\* line, so that the position of the window shows in its coordinates
C29_Witness_LinesOfLaterBar ==
    /\ pc = "plotted"
    /\ geometry.pattern_date > StepLookback(StepOf(geometry.pattern_name))
    /\ Len(geometry.lines) >= 1

\* the fields of a pattern dictionary
EventFields ==
    { "pattern_id", "stock_symbol", "pattern_type", "start_time", "end_time",
      "confidence" }

\* the first (pattern, row) occurrence, in loop order, whose timestamp is
\* repeated in the index; 0 if none
FirstFailure ==
    LET occ == Occurrences(table, 1)
        failing == { k \in 1..Len(occ) :
                       \E j \in 0..(NumBars - 1) :
                           j # occ[k][2] /\ At(df.index, j) = At(df.index, occ[k][2]) }
    IN  IF failing = {} THEN 0 ELSE MinOf(failing)

(* C30: for a series of at least 40 bars calculate_patterns returns a list *)
(* whatever was raised: after a failure in detection the empty list, and   *)
(* after a failure at an occurrence exactly the events of the occurrences  *)
(* before it, each with all six fields, its type, its symbol, the          *)
(* timestamps of its end and start rows and confidence 1.                  *)
C30_ReturnsAccumulated ==
    pc = "returned" /\ NumBars >= MIN_BARS =>
        LET occ == Occurrences(table, 1)
            n == IF FirstFailure = 0 THEN Len(occ) ELSE FirstFailure - 1
        IN  /\ Len(patterns) = n
            /\ (~(df.cols = PriceFields) /\ (\E k \in 1..Len(Steps) : Raises(Steps[k], df))
                   => patterns = << >>)
            /\ \A k \in 1..n :
                  LET e == patterns[k]
                      i == occ[k][2]
                      from == i - StepLookback(StepOf(occ[k][1]))
                  IN  /\ DOMAIN e = EventFields
                      /\ e.pattern_type = occ[k][1]
                      /\ e.stock_symbol = symbol
                      /\ e.end_time = At(df.index, i)
                      /\ e.start_time = At(df.index, IF from > 0 THEN from ELSE 0)
                      /\ e.pattern_id = symbol \o NameTokens(occ[k][1]) \o << e.end_time >>
                      /\ e.confidence = 1

\* the call returned a non-empty list that stops before a flagged row whose
\* timestamp is repeated
C30_Witness_PartialList ==
    /\ pc = "returned"
    /\ NumBars >= MIN_BARS
    /\ FirstFailure > 1
    /\ Len(patterns) = FirstFailure - 1
    /\ Len(patterns) < Len(Occurrences(table, 1))

====
